---- MODULE Spec2Model ----
(***************************************************************************)
(* Model of the Hikvision sync engine (src/sync_hikvision_cameras.py and   *)
(* src/process_hikvision_folder.py).                                       *)
(*                                                                         *)
(* Part 1 (SpecLock): the run lock, acquire_lock / release_lock, taken     *)
(* step by step by several processes on one lock file path.                *)
(* Part 2 (SpecRun): run(), one process, every exit path.                  *)
(* Part 3 (SpecMedia): _process_media passes over one destination folder.  *)
(* Part 4 (SpecRetention): apply_retention_policy, the retention sweep.    *)
(* Part 5 (SpecFolder): process_camera of process_hikvision_folder.py,     *)
(* one pass over a camera's segments into video/ and images/.              *)
(* Part 6 (SpecAtomicWrite): atomic_write of process_hikvision_folder.py.  *)
(* Part 7 (SpecRepeatedRuns): complete run() invocations one after the     *)
(* other on one camera's unchanged segments, each a sync pass followed by  *)
(* the retention sweep.                                                    *)
(***************************************************************************)
EXTENDS Integers, Sequences, FiniteSets, TLC

\* ------------------------------------------------------------------ bounds
NumProcs == 2
NumCameras == 2
MaxSegs == 2
MaxTime == 2
TicksPerSecond == 2
MaxEntries == 2
\* stands for the 1000 candidate names get_unique_filename tests
CollisionCap == 2

Procs == 1..NumProcs
\* an inode is live while the path names it or a descriptor is open on it
Inodes == 1..(NumProcs + 1)
NoInode == 0
NoProc == 0

VARIABLES
    \* ---- the lock file and the processes contending for it
    lock_file,              \* inode the lock file path names, NoInode if absent
    flock,                  \* inode -> process whose open description holds LOCK_EX
    content,                \* inode -> pid written in the file (NoProc: empty)
    lock_file_descriptor,   \* process -> inode its open descriptor refers to
    pc,                     \* process -> position in run()
    opened_stale            \* process -> its acquire_lock opened a lock file left on
                            \* disk, unlocked and open nowhere (history)

lockVars == <<lock_file, flock, content, lock_file_descriptor, pc, opened_stale>>

VARIABLES
    \* ---- one process executing run() (Part 2)
    variant,                \* "sync": sync_hikvision_cameras, "folder": process_hikvision_folder
    sync_images,            \* self.sync_images
    run_pc,                 \* position in run()
    other_holds,            \* another process holds the flock on the lock file
    lock_held,              \* this process holds the flock
    release_calls,          \* calls of release_lock made by the current run()
    exit_path,              \* how the try block of the current run() was left
    return_code,            \* value run() returned, NoCode before it returns
    directories_created,    \* create_directories made video/ and images/ for every camera
    camera_index,           \* next camera of self.cameras to process
    camera_input,           \* camera -> what the environment did during its process_camera
    all_camera_statistics,  \* camera -> statistics process_camera returned
    trace                   \* the steps of the current run(), in order

runVars == <<variant, sync_images, run_pc, other_holds, lock_held, release_calls,
             exit_path, return_code, directories_created, camera_index, camera_input,
             all_camera_statistics, trace>>

VARIABLES
    \* ---- _process_media over one destination folder (Part 3)
    media_type,             \* "video" or "image"
    fast_eligible,          \* use_fast_extraction and source, destination on one filesystem
    sync_days,              \* video_sync_days / image_sync_days
    segments_list,          \* what getSegments() returns: records with cust_startTime
    directory,              \* file name -> state of the file in the media directory
    media_pc,               \* position in _process_media
    segment_number,         \* index of the segment being handled (from 1)
    cutoff_time,            \* start of the sync window, NoTime for None
    existing_files_set,     \* names listed at the start of the pass, plus those added
    counts,                 \* the counters of the pass
    alarm,                  \* SIGALRM is armed
    sigalrm,                \* the handler of SIGALRM, and old_handler inside the block
    outcome,                \* segment index -> how the pass counted it (history)
    fired,                  \* the timer of the segment being extracted has expired
    listed,                 \* os.listdir succeeded at the start of this pass (history)
    previous                \* the pass before this one (history)

mediaConfig == <<media_type, fast_eligible, sync_days, segments_list>>
passState == <<media_pc, segment_number, cutoff_time, existing_files_set, counts, alarm,
              sigalrm>>
passHistory == <<outcome, fired, listed>>
mediaVars == <<mediaConfig, directory, passState, passHistory, previous>>

VARIABLES
    \* ---- apply_retention_policy over the destination trees (Part 4)
    retention_days,         \* self.retention_days
    retention_pc,           \* position in apply_retention_policy
    cutoff_timestamp,       \* files modified before it are old, NoTime before the sweep
    camera_number,          \* index in self.cameras of the camera being swept
    subdirectory,           \* index in ["video", "images"] of the folder being iterated
    entries_seen,           \* entries of that folder iterdir() has yielded so far
    total_deleted,          \* the counter of the sweep
    deleted_files_count,    \* what apply_retention_policy returned, NoCode before
    last_entry,             \* the entry handled last in the folder being iterated (history)
    unlinked,               \* files removed from disk by the sweep (history)
    swept,                  \* cameras whose iteration of the camera loop began (history)
    faults                  \* the kinds of failure met by the sweep (history)

sweepPosition == <<camera_number, subdirectory, entries_seen>>
retentionVars == <<retention_days, retention_pc, cutoff_timestamp, sweepPosition,
                   total_deleted, deleted_files_count, last_entry, unlinked, swept, faults>>

VARIABLES
    \* ---- process_camera of process_hikvision_folder.py
    folder_pc,              \* position in process_camera
    num,                    \* segments handled so far
    destination,            \* subdirectory -> (second, suffix) -> file state
    last_segment            \* what the loop iteration just ended did (history)

folderVars == <<folder_pc, num, destination, last_segment>>

VARIABLES
    \* ---- atomic_write of process_hikvision_folder.py
    atomic_pc,              \* position in atomic_write
    filesystem,             \* state of the files: .final of each destination
                            \* path, .part of each temporary path
    dest_path,              \* the argument dest_path
    getpid,                 \* os.getpid() of the caller
    content_result,         \* what content_func did (history)
    atomic_result,          \* the value atomic_write returned
    dest_before             \* state of dest_path when atomic_write was called (history)

atomicVars == <<atomic_pc, filesystem, dest_path, getpid, content_result, atomic_result,
                dest_before>>

VARIABLES
    \* ---- complete run() invocations in a row
    settings,               \* sync_days and retention_days of the configuration
    source,                 \* start times of the segments the adapter lists
    clock,                  \* datetime.now() of the last run, in ticks
    phase,                  \* position in run()
    mtimes,                 \* file name -> st_mtime of the file, NoTime if absent
    extracted_once,         \* names extracted by some pass (history)
    extracted_again         \* names extracted by a later pass once more (history)

repeatVars == <<settings, source, clock, phase, mtimes, extracted_once, extracted_again>>

vars == <<lockVars, runVars, mediaVars, retentionVars, folderVars, atomicVars, repeatVars>>

\* ------------------------------------------------------------------ Part 1
\* Positions of a process in run(): the next step it will take.
\*   "open" "flock" "write"    inside acquire_lock
\*   "work"                    acquire_lock returned True, release_lock not begun
\*   "unlock" "close" "unlink" inside release_lock
PcValues == {"open", "flock", "write", "work", "unlock", "close", "unlink"}

OpenDescriptors(ino) == {p \in Procs : lock_file_descriptor[p] = ino}

\* an inode number not in use: neither linked by the path nor open anywhere
FreeInodes == {i \in Inodes : i # lock_file /\ OpenDescriptors(i) = {}}

\* close(fd): the descriptor goes away and with it the flock it held
CloseDescriptorKeepsLock(p) ==
    /\ UNCHANGED flock
    /\ lock_file_descriptor' = [lock_file_descriptor EXCEPT ![p] = NoInode]

CloseDescriptor(p) ==
    /\ flock' = [i \in Inodes |-> IF flock[i] = p THEN NoProc ELSE flock[i]]
    /\ lock_file_descriptor' = [lock_file_descriptor EXCEPT ![p] = NoInode]

notLockVars == <<runVars, mediaVars, retentionVars, folderVars, atomicVars, repeatVars>>

InitLock ==
    /\ lock_file = NoInode
    /\ flock = [i \in Inodes |-> NoProc]
    /\ content = [i \in Inodes |-> NoProc]
    /\ lock_file_descriptor = [p \in Procs |-> NoInode]
    /\ pc = [p \in Procs |-> "open"]
    /\ opened_stale = [p \in Procs |-> FALSE]

\* open(self.lock_file, "w"): O_CREAT | O_TRUNC
OpenLockFile(p) ==
    /\ pc[p] = "open"
    /\ LET ino == IF lock_file = NoInode
                  THEN CHOOSE i \in FreeInodes : \A j \in FreeInodes : i <= j
                  ELSE lock_file
       IN /\ lock_file' = ino
          /\ content' = [content EXCEPT ![ino] = NoProc]
          /\ lock_file_descriptor' = [lock_file_descriptor EXCEPT ![p] = ino]
    /\ pc' = [pc EXCEPT ![p] = "flock"]
    /\ UNCHANGED flock
    /\ opened_stale' = [opened_stale EXCEPT ![p] =
            lock_file # NoInode /\ flock[lock_file] = NoProc
                /\ OpenDescriptors(lock_file) = {}]
    /\ UNCHANGED notLockVars

\* open() raises OSError: acquire_lock returns False, run() returns 1
OpenLockFileFails(p) ==
    /\ pc[p] = "open"
    /\ pc' = [pc EXCEPT ![p] = "open"]
    /\ UNCHANGED <<lock_file, flock, content, lock_file_descriptor>>
    /\ UNCHANGED opened_stale
    /\ UNCHANGED notLockVars

\* fcntl.flock(fd, LOCK_EX | LOCK_NB)
FlockGranted(p) == flock[lock_file_descriptor[p]] = NoProc

TryFlock(p) ==
    /\ pc[p] = "flock"
    /\ IF FlockGranted(p)
       THEN /\ flock' = [flock EXCEPT ![lock_file_descriptor[p]] = p]
            /\ pc' = [pc EXCEPT ![p] = "write"]
            /\ UNCHANGED lock_file_descriptor
       ELSE \* BlockingIOError: close the handle, return False, run() returns 1
            /\ CloseDescriptor(p)
            /\ pc' = [pc EXCEPT ![p] = "open"]
    /\ UNCHANGED <<lock_file, content>>
    /\ opened_stale' = [opened_stale EXCEPT ![p] = pc'[p] # "open" /\ @]
    /\ UNCHANGED notLockVars

\* write(str(os.getpid())); flush(); return True
WritePid(p) ==
    /\ pc[p] = "write"
    /\ content' = [content EXCEPT ![lock_file_descriptor[p]] = p]
    /\ pc' = [pc EXCEPT ![p] = "work"]
    /\ UNCHANGED <<lock_file, flock, lock_file_descriptor>>
    /\ UNCHANGED opened_stale
    /\ UNCHANGED notLockVars

\* write()/flush() raises OSError: the handle is closed, acquire_lock returns False
WritePidFails(p) ==
    /\ pc[p] = "write"
    /\ CloseDescriptor(p)
    /\ pc' = [pc EXCEPT ![p] = "open"]
    /\ UNCHANGED <<lock_file, content>>
    /\ opened_stale' = [opened_stale EXCEPT ![p] = pc'[p] # "open" /\ @]
    /\ UNCHANGED notLockVars

\* the body of run() between acquire_lock and the finally block
Work(p) ==
    /\ pc[p] = "work"
    /\ pc' = [pc EXCEPT ![p] = "unlock"]
    /\ UNCHANGED <<lock_file, flock, content, lock_file_descriptor>>
    /\ UNCHANGED opened_stale
    /\ UNCHANGED notLockVars

\* fcntl.flock(fd, LOCK_UN)
Unlock(p) ==
    /\ pc[p] = "unlock"
    /\ flock' = [flock EXCEPT ![lock_file_descriptor[p]] = NoProc]
    /\ pc' = [pc EXCEPT ![p] = "close"]
    /\ UNCHANGED <<lock_file, content, lock_file_descriptor>>
    /\ UNCHANGED opened_stale
    /\ UNCHANGED notLockVars

\* self.lock_file_descriptor.close()
CloseLockFile(p) ==
    /\ pc[p] = "close"
    /\ CloseDescriptor(p)
    /\ pc' = [pc EXCEPT ![p] = "unlink"]
    /\ UNCHANGED <<lock_file, content>>
    /\ UNCHANGED opened_stale
    /\ UNCHANGED notLockVars

\* os.unlink(self.lock_file): removes whatever inode the path names now
UnlinkLockFile(p) ==
    /\ pc[p] = "unlink"
    /\ lock_file' = NoInode
    /\ pc' = [pc EXCEPT ![p] = "open"]
    /\ UNCHANGED <<flock, content, lock_file_descriptor>>
    /\ opened_stale' = [opened_stale EXCEPT ![p] = pc'[p] # "open" /\ @]
    /\ UNCHANGED notLockVars

\* os.unlink raises OSError (swallowed): the file stays
UnlinkFails(p) ==
    /\ pc[p] = "unlink"
    /\ pc' = [pc EXCEPT ![p] = "open"]
    /\ UNCHANGED <<lock_file, flock, content, lock_file_descriptor>>
    /\ opened_stale' = [opened_stale EXCEPT ![p] = pc'[p] # "open" /\ @]
    /\ UNCHANGED notLockVars

\* the process is killed: the OS closes its descriptor, which drops its flock;
\* the lock file stays on disk. The scheduler starts the next run from scratch.
Crash(p) ==
    /\ lock_file_descriptor[p] # NoInode
    /\ CloseDescriptor(p)
    /\ pc' = [pc EXCEPT ![p] = "open"]
    /\ UNCHANGED <<lock_file, content>>
    /\ opened_stale' = [opened_stale EXCEPT ![p] = pc'[p] # "open" /\ @]
    /\ UNCHANGED notLockVars

NextLock ==
    \E p \in Procs :
        \/ OpenLockFile(p)
        \/ OpenLockFileFails(p)
        \/ TryFlock(p)
        \/ WritePid(p)
        \/ WritePidFails(p)
        \/ Work(p)
        \/ Unlock(p)
        \/ CloseLockFile(p)
        \/ UnlinkLockFile(p)
        \/ UnlinkFails(p)
        \/ Crash(p)


\* ------------------------------------------------------------------ Part 2
\* run() of one process. acquire_lock and release_lock are taken as single
\* steps here (Part 1 has their interleavings); the adapter and the file
\* system are the environment, drawn per step.
NoCode == -1
Cameras == 1..NumCameras
Variants == {"sync", "folder"}
AdapterBehaviours == {"ok", "construct_raises", "list_raises", "extract_raises"}
ExitPaths == {"none", "refused", "completed", "keyboard_interrupt", "exception",
              "mkdir_false"}

ZeroStatistics == [total |-> 0, existing |-> 0, new |-> 0, failed |-> 0]
ZeroBoth == [videos |-> ZeroStatistics, images |-> ZeroStatistics]
\* process_hikvision_folder.process_camera returns None
NoStatistics == [total |-> NoCode, existing |-> NoCode, new |-> NoCode, failed |-> NoCode]
ReturnsNone == [videos |-> NoStatistics, images |-> NoStatistics]

notRunVars == <<lockVars, mediaVars, retentionVars, folderVars, atomicVars, repeatVars>>

\* run() has not been called
RunNotStarted ==
    /\ run_pc = "start"
    /\ other_holds = FALSE
    /\ lock_held = FALSE
    /\ release_calls = 0
    /\ exit_path = "none"
    /\ return_code = NoCode
    /\ directories_created = FALSE
    /\ camera_index = 1
    /\ camera_input = <<>>
    /\ all_camera_statistics = <<>>
    /\ trace = <<>>

InitRun ==
    /\ variant \in Variants
    /\ sync_images \in BOOLEAN
    /\ RunNotStarted

\* Part 2 at rest, for the specifications of the other parts
IdleRun ==
    /\ variant = "sync"
    /\ sync_images = TRUE
    /\ RunNotStarted

\* The statistics _process_media returns for a camera with one segment, by
\* what the adapter does. An exception from the constructor or getSegments is
\* caught by the outer handler (all zero); one from extractSegment* by the
\* per-segment handler (the segment counts as failed).
ProcessMediaNoOuterHandler(behaviour) ==
    CASE behaviour = "ok" -> [raised |-> FALSE,
            stats |-> [total |-> 1, existing |-> 0, new |-> 1, failed |-> 0]]
      [] behaviour = "extract_raises" -> [raised |-> FALSE,
            stats |-> [total |-> 1, existing |-> 0, new |-> 0, failed |-> 1]]
      [] OTHER -> [raised |-> TRUE, stats |-> ZeroStatistics]

ProcessMedia(behaviour) ==
    CASE behaviour = "ok" -> [raised |-> FALSE,
            stats |-> [total |-> 1, existing |-> 0, new |-> 1, failed |-> 0]]
      [] behaviour = "extract_raises" -> [raised |-> FALSE,
            stats |-> [total |-> 1, existing |-> 0, new |-> 0, failed |-> 1]]
      [] OTHER -> [raised |-> FALSE, stats |-> ZeroStatistics]

\* the number of _process_media calls (each one builds an adapter) that
\* sync_hikvision_cameras.process_camera makes: lines 417-435
AdapterCalls(input) ==
    IF ~input.source_exists THEN 0
    ELSE IF sync_images /\ ~ProcessMedia(input.video).raised THEN 2 ELSE 1

\* the kinds process_camera hands to _process_media, in the order of the
\* calls: lines 424-435
MediaCalls(input) ==
    IF ~input.source_exists THEN <<>>
    ELSE IF sync_images /\ ~ProcessMedia(input.video).raised
         THEN <<"video", "image">> ELSE <<"video">>

ProcessCameraSyncAlwaysImages(input) ==
    IF ~input.source_exists THEN ZeroBoth
    ELSE LET video == ProcessMedia(input.video)
             image == ProcessMedia(input.image)
         IN IF video.raised \/ image.raised THEN ZeroBoth
            ELSE [videos |-> video.stats, images |-> image.stats]

ProcessCameraSyncNoSourceCheck(input) ==
    LET video == ProcessMedia(input.video)
        image == ProcessMedia(input.image)
    IN IF video.raised THEN ZeroBoth
       ELSE IF ~sync_images
            THEN [videos |-> video.stats, images |-> ZeroStatistics]
            ELSE IF image.raised THEN ZeroBoth
                 ELSE [videos |-> video.stats, images |-> image.stats]

\* sync_hikvision_cameras.process_camera
ProcessCameraSync(input) ==
    IF ~input.source_exists THEN ZeroBoth
    ELSE LET video == ProcessMedia(input.video)
             image == ProcessMedia(input.image)
         IN IF video.raised THEN ZeroBoth
            ELSE IF ~sync_images
                 THEN [videos |-> video.stats, images |-> ZeroStatistics]
                 ELSE IF image.raised THEN ZeroBoth
                      ELSE [videos |-> video.stats, images |-> image.stats]

ReturnCodeOfInterruptIsSuccess(path) ==
    IF path \in {"completed", "keyboard_interrupt"} THEN 0 ELSE 1

\* the outcome of the try block by the way it was left
ReturnCodeOf(path) == IF path = "completed" THEN 0 ELSE 1

\* the finally block of run(): release_lock() on every way out of the try block
FinallyReleasesOnSuccessOnly(path) == path = "completed"

FinallyReleases(path) == path \in ExitPaths

AcquireLockInsideTry ==
    /\ run_pc = "start"
    /\ \E os_ok \in BOOLEAN :
        IF other_holds \/ ~os_ok
        THEN /\ run_pc' = "finally"
             /\ exit_path' = "refused"
             /\ UNCHANGED <<lock_held, trace, return_code>>
        ELSE /\ lock_held' = TRUE
             /\ run_pc' = "mkdirs"
             /\ trace' = Append(trace, "acquire")
             /\ UNCHANGED <<exit_path, return_code>>
    /\ UNCHANGED <<variant, sync_images, other_holds, release_calls, directories_created,
                   camera_index, camera_input, all_camera_statistics>>
    /\ UNCHANGED notRunVars

\* run() going on after acquire_lock returned False
AcquireLockRefusalIgnored ==
    /\ run_pc = "start"
    /\ \E os_ok \in BOOLEAN :
        IF other_holds \/ ~os_ok
        THEN /\ run_pc' = "mkdirs"
             /\ UNCHANGED <<lock_held, trace, exit_path, return_code>>
        ELSE /\ lock_held' = TRUE
             /\ run_pc' = "mkdirs"
             /\ trace' = Append(trace, "acquire")
             /\ UNCHANGED <<exit_path, return_code>>
    /\ UNCHANGED <<variant, sync_images, other_holds, release_calls, directories_created,
                   camera_index, camera_input, all_camera_statistics>>
    /\ UNCHANGED notRunVars

\* a run is refused or gets the lock
AcquireLock ==
    /\ run_pc = "start"
    /\ \E os_ok \in BOOLEAN :
        IF other_holds \/ ~os_ok
        THEN /\ run_pc' = "returned"
             /\ exit_path' = "refused"
             /\ return_code' = 1
             /\ UNCHANGED <<lock_held, trace>>
        ELSE /\ lock_held' = TRUE
             /\ run_pc' = "mkdirs"
             /\ trace' = Append(trace, "acquire")
             /\ UNCHANGED <<exit_path, return_code>>
    /\ UNCHANGED <<variant, sync_images, other_holds, release_calls, directories_created,
                   camera_index, camera_input, all_camera_statistics>>
    /\ UNCHANGED notRunVars

CreateDirectoriesFailureIgnored ==
    /\ run_pc = "mkdirs"
    /\ \E mkdir_ok \in BOOLEAN :
        /\ directories_created' = mkdir_ok
        /\ run_pc' = "cameras"
        /\ UNCHANGED exit_path
    /\ trace' = Append(trace, "mkdirs")
    /\ UNCHANGED <<variant, sync_images, other_holds, lock_held, release_calls, return_code,
                   camera_index, camera_input, all_camera_statistics>>
    /\ UNCHANGED notRunVars

\* create_directories(): mkdir for every camera
CreateDirectories ==
    /\ run_pc = "mkdirs"
    /\ \E mkdir_ok \in BOOLEAN :
        IF mkdir_ok
        THEN /\ directories_created' = TRUE
             /\ run_pc' = "cameras"
             /\ UNCHANGED exit_path
        ELSE \* "folder": caught inside, returns False, run() returns 1
             \* "sync": the exception reaches run()'s handler
             /\ exit_path' = IF variant = "folder" THEN "mkdir_false" ELSE "exception"
             /\ run_pc' = "finally"
             /\ UNCHANGED directories_created
    /\ trace' = Append(trace, "mkdirs")
    /\ UNCHANGED <<variant, sync_images, other_holds, lock_held, release_calls, return_code,
                   camera_index, camera_input, all_camera_statistics>>
    /\ UNCHANGED notRunVars

\* What the environment does during one process_camera call: whether the source
\* path exists and how the adapter behaves for each kind it is asked for (a kind
\* it is not asked for is written "ok").
CameraInputs ==
    {i \in [source_exists : BOOLEAN, video : AdapterBehaviours, image : AdapterBehaviours] :
        /\ ~i.source_exists => (i.video = "ok" /\ i.image = "ok")
        /\ (~sync_images \/ variant = "folder") => i.image = "ok"}

\* one iteration of the camera loop: process_camera(source, destination, tag)
ProcessCamera ==
    /\ run_pc = "cameras"
    /\ camera_index <= NumCameras
    /\ \E input \in CameraInputs :
        /\ camera_input' = Append(camera_input, input)
        /\ all_camera_statistics' =
              Append(all_camera_statistics,
                     IF variant = "sync" THEN ProcessCameraSync(input) ELSE ReturnsNone)
    /\ camera_index' = camera_index + 1
    /\ run_pc' = IF camera_index = NumCameras THEN "retention" ELSE "cameras"
    /\ trace' = Append(trace, "camera")
    /\ UNCHANGED <<variant, sync_images, other_holds, lock_held, release_calls, return_code,
                   directories_created, exit_path>>
    /\ UNCHANGED notRunVars

\* apply_retention_policy()
ApplyRetentionPolicy ==
    /\ run_pc = "retention"
    /\ run_pc' = "summary"
    /\ trace' = Append(trace, "retention")
    /\ UNCHANGED <<variant, sync_images, other_holds, lock_held, release_calls, exit_path,
                   return_code, directories_created, camera_index, camera_input,
                   all_camera_statistics>>
    /\ UNCHANGED notRunVars

\* _generate_summary_report / the closing log line, then return 0
Summary ==
    /\ run_pc = "summary"
    /\ run_pc' = "finally"
    /\ exit_path' = "completed"
    /\ trace' = Append(trace, "summary")
    /\ UNCHANGED <<variant, sync_images, other_holds, lock_held, release_calls, return_code,
                   directories_created, camera_index, camera_input, all_camera_statistics>>
    /\ UNCHANGED notRunVars

\* KeyboardInterrupt, or an exception that is not the adapter's (the log, the
\* retention sweep, the summary), anywhere in the try block
RaiseInRun ==
    /\ run_pc \in {"mkdirs", "cameras", "retention", "summary"}
    /\ \E kind \in {"keyboard_interrupt", "exception"} : exit_path' = kind
    /\ run_pc' = "finally"
    /\ UNCHANGED <<variant, sync_images, other_holds, lock_held, release_calls, return_code,
                   directories_created, camera_index, camera_input, all_camera_statistics,
                   trace>>
    /\ UNCHANGED notRunVars

\* the finally block, then run() returns
Finally ==
    /\ run_pc = "finally"
    /\ IF FinallyReleases(exit_path)
       THEN /\ release_calls' = release_calls + 1
            /\ lock_held' = FALSE
            /\ trace' = Append(trace, "release")
       ELSE UNCHANGED <<release_calls, lock_held, trace>>
    /\ return_code' = ReturnCodeOf(exit_path)
    /\ run_pc' = "returned"
    /\ UNCHANGED <<variant, sync_images, other_holds, exit_path, directories_created,
                   camera_index, camera_input, all_camera_statistics>>
    /\ UNCHANGED notRunVars

\* the scheduler invokes run() again
StartRun ==
    /\ run_pc = "returned"
    /\ run_pc' = "start"
    /\ release_calls' = 0
    /\ exit_path' = "none"
    /\ return_code' = NoCode
    /\ directories_created' = FALSE
    /\ camera_index' = 1
    /\ camera_input' = <<>>
    /\ all_camera_statistics' = <<>>
    /\ trace' = <<>>
    /\ UNCHANGED <<variant, sync_images, other_holds, lock_held>>
    /\ UNCHANGED notRunVars

\* another process takes or gives up the lock
OtherProcess ==
    /\ ~lock_held
    /\ other_holds' = ~other_holds
    /\ UNCHANGED <<variant, sync_images, run_pc, lock_held, release_calls, exit_path,
                   return_code, directories_created, camera_index, camera_input,
                   all_camera_statistics, trace>>
    /\ UNCHANGED notRunVars

NextRun ==
    \/ AcquireLock
    \/ CreateDirectories
    \/ ProcessCamera
    \/ ApplyRetentionPolicy
    \/ Summary
    \/ RaiseInRun
    \/ Finally
    \/ StartRun
    \/ OtherProcess

\* ------------------------------------------------------------------ Part 3
\* _process_media of sync_hikvision_cameras, pass after pass over one media
\* directory of one camera. The adapter (libHikvision), the timer signal and
\* the file system are the environment. Time is counted in ticks; the clock is
\* scaled so that one day of the sync window lasts DayTicks ticks.
NoTime == -1
\* a cust_startTime that is not a datetime (a string, a number)
BadTime == -2
Times == 0..MaxTime
DayTicks == TicksPerSecond
MaxNow == MaxTime + 1
SyncDaysValues == {0, 1}
MediaTypes == {"video", "image"}
FileStates == {"absent", "empty", "partial", "full"}

\* strftime("%Y-%m-%d_%H-%M-%S"): the fraction of the second is dropped; the tag
\* and the extension are the same for every segment of a pass
FileNameByMinute(t) == t \div (TicksPerSecond + TicksPerSecond)

FileName(t) == t \div TicksPerSecond

\* three segments, one second apart (the partial-failure scenario)
ThreeSegments ==
    <<[cust_startTime |-> 0], [cust_startTime |-> TicksPerSecond],
      [cust_startTime |-> TicksPerSecond + TicksPerSecond]>>

\* the file names of the destination directory
Names ==
    {FileName(t) : t \in Times} \cup
    {FileName(ThreeSegments[i].cust_startTime) : i \in 1..Len(ThreeSegments)}

SegmentLists ==
    UNION {[1..n -> [cust_startTime : Times \cup {NoTime, BadTime}]] : n \in 0..MaxSegs}

ZeroCounts ==
    [new_files_count |-> 0, existing_files_count |-> 0, failed_files_count |-> 0,
     skipped_old_count |-> 0, skipped_no_timestamp_count |-> 0, timed_out_count |-> 0,
     fast_path_count |-> 0]

NoPrevious ==
    [completed |-> FALSE, listed |-> FALSE, outcome |-> <<>>,
     statistics |-> ZeroStatistics]

notMediaVars == <<lockVars, runVars, retentionVars, folderVars, atomicVars, repeatVars>>

\* extraction_timeout, lines 111 and 117: the disposition of SIGALRM. The
\* handler is the one the process started with or a timeout_handler;
\* old_handler is the local of the context manager, "none" outside of it
DefaultDisposition == [handler |-> "SIG_DFL", old_handler |-> "none"]
\* line 111: old_handler = signal.signal(signal.SIGALRM, timeout_handler)
Installed(s) == [handler |-> "timeout_handler", old_handler |-> s.handler]
\* line 117: signal.signal(signal.SIGALRM, old_handler)
Restored(s) == [handler |-> s.old_handler, old_handler |-> "none"]
\* the finally block is left by an exception before line 117
NotRestored(s) == [handler |-> s.handler, old_handler |-> "none"]

\* no pass is running
PassAtRest ==
    /\ media_pc = "idle"
    /\ segment_number = 1
    /\ cutoff_time = NoTime
    /\ existing_files_set = {}
    /\ counts = ZeroCounts
    /\ alarm = FALSE
    /\ sigalrm = DefaultDisposition
    /\ outcome = <<>>
    /\ fired = FALSE
    /\ listed = FALSE

InitMedia ==
    /\ media_type \in MediaTypes
    /\ fast_eligible \in BOOLEAN
    /\ media_type = "video" \/ fast_eligible
    /\ sync_days \in SyncDaysValues
    /\ segments_list \in SegmentLists
    /\ directory = [n \in Names |-> "absent"]
    /\ previous = NoPrevious
    /\ PassAtRest

\* Part 3 at rest, for the specifications of the other parts
IdleMedia ==
    /\ media_type = "video"
    /\ fast_eligible = FALSE
    /\ sync_days = 0
    /\ segments_list = <<>>
    /\ directory = [n \in Names |-> "absent"]
    /\ previous = NoPrevious
    /\ PassAtRest

\* os.path.isfile(name) for the names os.listdir returns
IsFile(name) == directory[name] # "absent"

\* os.path.exists(path) and os.path.getsize(path) > 0
ExistsNonEmpty(state) == state \in {"partial", "full"}

\* existing_files_set as built at the start of a pass: lines 498-511
ListedFiles(listing_ok) ==
    IF listing_ok THEN {n \in Names : IsFile(n)} ELSE {}

\* use_fast_path without the test of the media type
UseFastPathAnyKind == fast_eligible

\* use_fast_path
UseFastPath == fast_eligible /\ media_type = "video"

CurrentName == FileName(segments_list[segment_number].cust_startTime)

\* the statistics dictionary the pass returns
ReturnedStatistics ==
    [total |-> Len(segments_list),
     existing |-> counts.existing_files_count,
     new |-> counts.new_files_count,
     failed |-> counts.failed_files_count]

LoopDone == media_pc = "segment" /\ segment_number > Len(segments_list)

\* the segment is counted under `kind` and the loop moves on
\* a counter is raised and the segment is counted as failed as well
CountAndFailed(kind, counter) ==
    /\ counts' = [counts EXCEPT ![counter] = @ + 1,
                                !.failed_files_count = counts.failed_files_count + 1]
    /\ outcome' = Append(outcome, kind)
    /\ segment_number' = segment_number + 1
    /\ media_pc' = "segment"

Count(kind, counter) ==
    /\ counts' = [counts EXCEPT ![counter] = @ + 1]
    /\ outcome' = Append(outcome, kind)
    /\ segment_number' = segment_number + 1
    /\ media_pc' = "segment"

\* lines 584-592: the check after the with block. `result` is extraction_result,
\* `state` the state of the destination file, `fast` whether the fast path
\* produced the result
VerifyTrustingResult(result, state, fast) ==
    /\ counts' = [counts EXCEPT
            !.fast_path_count = IF fast THEN @ + 1 ELSE @,
            !.new_files_count = IF result THEN @ + 1 ELSE @,
            !.failed_files_count = IF result THEN @ ELSE @ + 1]
    /\ outcome' = Append(outcome, IF result THEN "new" ELSE "failed")
    /\ existing_files_set' =
          IF result THEN existing_files_set \cup {CurrentName} ELSE existing_files_set
    /\ segment_number' = segment_number + 1
    /\ media_pc' = "segment"
    /\ alarm' = FALSE
    /\ sigalrm' = Restored(sigalrm)

\* lines 584-592 without existing_files_set.add of line 590
VerifyNotRemembering(result, state, fast) ==
    LET ok == result /\ ExistsNonEmpty(state)
    IN /\ counts' = [counts EXCEPT
               !.fast_path_count = IF fast THEN @ + 1 ELSE @,
               !.new_files_count = IF ok THEN @ + 1 ELSE @,
               !.failed_files_count = IF ok THEN @ ELSE @ + 1]
       /\ outcome' = Append(outcome, IF ok THEN "new" ELSE "failed")
       /\ UNCHANGED existing_files_set
       /\ segment_number' = segment_number + 1
       /\ media_pc' = "segment"
       /\ alarm' = FALSE
       /\ sigalrm' = Restored(sigalrm)

Verify(result, state, fast) ==
    LET ok == result /\ ExistsNonEmpty(state)
    IN /\ counts' = [counts EXCEPT
               !.fast_path_count = IF fast THEN @ + 1 ELSE @,
               !.new_files_count = IF ok THEN @ + 1 ELSE @,
               !.failed_files_count = IF ok THEN @ ELSE @ + 1]
       /\ outcome' = Append(outcome, IF ok THEN "new" ELSE "failed")
       /\ existing_files_set' =
             IF ok THEN existing_files_set \cup {CurrentName} ELSE existing_files_set
       /\ segment_number' = segment_number + 1
       /\ media_pc' = "segment"
       /\ alarm' = FALSE
       /\ sigalrm' = Restored(sigalrm)

\* datetime.now() as read at the start of a pass
ClockReadings == MaxTime..MaxNow

\* lines 476-515: the adapter is built, the segments are listed, the window and
\* the membership set are computed. An exception of the adapter ends the pass
\* with all-zero statistics and nothing touched.
StartPass ==
    /\ media_pc = "idle"
    /\ \E adapter \in {"ok", "construct_raises", "list_raises"}, listing_ok \in BOOLEAN,
          now \in ClockReadings :
        IF adapter = "ok"
        THEN /\ sync_days = 0 => now = MaxTime
             /\ media_pc' = "segment"
             /\ cutoff_time' = IF sync_days > 0 THEN now - sync_days * DayTicks ELSE NoTime
             /\ existing_files_set' = ListedFiles(listing_ok)
             /\ listed' = listing_ok
             /\ UNCHANGED previous
        ELSE /\ listing_ok /\ now = MaxTime
             /\ UNCHANGED <<media_pc, cutoff_time, existing_files_set, listed, previous>>
    /\ UNCHANGED <<segment_number, counts, alarm, sigalrm, outcome, fired>>
    /\ UNCHANGED <<mediaConfig, directory>>
    /\ UNCHANGED notMediaVars

\* lines 601-602: the handler of the segment's try block
SegmentFailedEndsLoop ==
    /\ counts' = [counts EXCEPT !.failed_files_count = @ + 1]
    /\ outcome' = Append(outcome, "failed")
    /\ segment_number' = Len(segments_list) + 1
    /\ media_pc' = "segment"

SegmentFailed == Count("failed", "failed_files_count")

\* line 524: cutoff_time and segment_start_time < cutoff_time
TooOldOrAtCutoff(segment_start_time) ==
    cutoff_time # NoTime /\ segment_start_time <= cutoff_time

TooOld(segment_start_time) ==
    cutoff_time # NoTime /\ segment_start_time < cutoff_time

\* lines 517-547: one segment of the loop, up to the start of its extraction
HandleSegment ==
    /\ media_pc = "segment"
    /\ segment_number <= Len(segments_list)
    /\ LET segment_start_time == segments_list[segment_number].cust_startTime
       IN IF segment_start_time = NoTime
          THEN /\ Count("no_timestamp", "skipped_no_timestamp_count")
               /\ UNCHANGED <<alarm, sigalrm, fired>>
          ELSE IF segment_start_time = BadTime
          THEN \* the comparison with the cutoff or strftime raises
               /\ SegmentFailed
               /\ UNCHANGED <<alarm, sigalrm, fired>>
          ELSE IF TooOld(segment_start_time)
          THEN /\ Count("old", "skipped_old_count")
               /\ UNCHANGED <<alarm, sigalrm, fired>>
          ELSE IF CurrentName \in existing_files_set
          THEN /\ Count("existing", "existing_files_count")
               /\ UNCHANGED <<alarm, sigalrm, fired>>
          ELSE /\ alarm' = TRUE
               /\ sigalrm' = Installed(sigalrm)
               /\ fired' = FALSE
               /\ media_pc' = IF UseFastPath THEN "fast_open" ELSE "adapter"
               /\ UNCHANGED <<counts, outcome, segment_number>>
    /\ UNCHANGED <<cutoff_time, existing_files_set, listed, previous>>
    /\ UNCHANGED <<mediaConfig, directory>>
    /\ UNCHANGED notMediaVars

\* _extract_video_fast, lines 265-269: the source is opened, then the
\* destination is created (or truncated) under its final name; a failure is
\* caught and the function returns False, which starts the adapter
FastOpen ==
    /\ media_pc = "fast_open"
    /\ \E opened \in BOOLEAN :
        IF opened
        THEN /\ directory' = [directory EXCEPT ![CurrentName] = "empty"]
             /\ media_pc' = "fast_copy"
        ELSE /\ media_pc' = "adapter"
             /\ UNCHANGED directory
    /\ UNCHANGED <<segment_number, cutoff_time, existing_files_set, counts, alarm,
                   sigalrm>>
    /\ UNCHANGED <<passHistory, previous, mediaConfig>>
    /\ UNCHANGED notMediaVars

\* _extract_video_fast, lines 274-281: one turn of the copy loop.
\*   "more": a chunk is written and bytes remain
\*   "last": the chunk that brings remaining to 0 is written; returns True
\*   "eof":  read() returns nothing (or nothing was to be copied); returns True
\*   "error": read or write raises; returns False, which starts the adapter
FastCopy ==
    /\ media_pc = "fast_copy"
    /\ \E turn \in {"more", "last", "eof", "error"} :
        CASE turn = "more" ->
               /\ directory' = [directory EXCEPT ![CurrentName] = "partial"]
               /\ UNCHANGED passState
               /\ UNCHANGED outcome
          [] turn = "last" ->
               /\ directory' = [directory EXCEPT ![CurrentName] = "full"]
               /\ Verify(TRUE, "full", TRUE)
               /\ UNCHANGED cutoff_time
          [] turn = "eof" ->
               /\ UNCHANGED directory
               /\ Verify(TRUE, directory[CurrentName], TRUE)
               /\ UNCHANGED cutoff_time
          [] turn = "error" ->
               /\ media_pc' = "adapter"
               /\ UNCHANGED directory
               /\ UNCHANGED <<segment_number, cutoff_time, existing_files_set, counts, alarm,
                   sigalrm>>
               /\ UNCHANGED outcome
    /\ UNCHANGED <<fired, listed, previous, mediaConfig>>
    /\ UNCHANGED notMediaVars

\* extractSegmentMP4 / extractSegmentJPG at work: it writes its output under
\* the final name it was given
AdapterWrites ==
    /\ media_pc = "adapter"
    /\ \E state \in {"empty", "partial", "full"} :
        /\ directory[CurrentName] # state
        /\ directory' = [directory EXCEPT ![CurrentName] = state]
    /\ UNCHANGED <<passState, passHistory, previous, mediaConfig>>
    /\ UNCHANGED notMediaVars

\* the adapter returns, a path (truthy) or nothing (falsy): lines 566-592
AdapterReturns ==
    /\ media_pc = "adapter"
    /\ \E extraction_result \in BOOLEAN :
        Verify(extraction_result, directory[CurrentName], FALSE)
    /\ UNCHANGED <<cutoff_time, directory>>
    /\ UNCHANGED <<fired, listed, previous, mediaConfig>>
    /\ UNCHANGED notMediaVars

\* the adapter raises an exception other than TimeoutError
AdapterRaises ==
    /\ media_pc = "adapter"
    /\ SegmentFailed
    /\ alarm' = FALSE
    /\ sigalrm' = Restored(sigalrm)
    /\ UNCHANGED <<cutoff_time, existing_files_set, directory>>
    /\ UNCHANGED <<fired, listed, previous, mediaConfig>>
    /\ UNCHANGED notMediaVars

\* where the TimeoutError raised by the signal handler is caught: inside
\* _extract_video_fast by its `except Exception` (the function returns False),
\* inside the adapter call by `except TimeoutError` of the segment
CaughtByFastPath(position) == position \in {"fast_open", "fast_copy"}

\* lines 115-117 after timeout_handler has raised: inside the guarded block the
\* finally block runs whole; when the handler runs inside the finally block
\* itself, before line 117, the block is left with the handler in place
LeaveGuardedBlock(in_finally) ==
    IF in_finally THEN NotRestored(sigalrm) ELSE Restored(sigalrm)

\* SIGALRM is delivered while the timer is armed: lines 108-109. The handler
\* runs between two bytecodes of the main thread, inside the guarded block or,
\* when the block has just been left (the adapter returned or raised, the fast
\* copy returned True), inside the finally block before signal.alarm(0)
TimerFires ==
    /\ alarm
    /\ media_pc \in {"fast_open", "fast_copy", "adapter"}
    /\ fired' = TRUE
    /\ \E in_finally \in BOOLEAN :
        IF in_finally
        THEN \* TimeoutError leaves the with statement: line 594
             /\ media_pc \in {"fast_copy", "adapter"}
             /\ counts' = [counts EXCEPT
                     !.fast_path_count = IF media_pc = "fast_copy" THEN @ + 1 ELSE @,
                     !.timed_out_count = @ + 1]
             /\ outcome' = Append(outcome, "timed_out")
             /\ segment_number' = segment_number + 1
             /\ media_pc' = "segment"
             /\ alarm' = FALSE
             /\ sigalrm' = LeaveGuardedBlock(in_finally)
        ELSE IF CaughtByFastPath(media_pc)
        THEN \* extraction_result is False: the adapter is called, the timer is spent
             /\ media_pc' = "adapter"
             /\ alarm' = FALSE
             /\ UNCHANGED <<counts, outcome, segment_number, sigalrm>>
        ELSE /\ Count("timed_out", "timed_out_count")
             /\ alarm' = FALSE
             /\ sigalrm' = LeaveGuardedBlock(in_finally)
    /\ UNCHANGED <<cutoff_time, existing_files_set, directory>>
    /\ UNCHANGED <<listed, previous, mediaConfig>>
    /\ UNCHANGED notMediaVars

\* what a pass that ran its loop leaves behind for an observer
ThisPass ==
    [completed |-> TRUE, listed |-> listed, outcome |-> outcome,
     statistics |-> ReturnedStatistics]

\* lines 604-638: the loop is over, the statistics are returned
Return(record) ==
    /\ LoopDone
    /\ previous' = record
    /\ media_pc' = "idle"
    /\ segment_number' = 1
    /\ cutoff_time' = NoTime
    /\ existing_files_set' = {}
    /\ counts' = ZeroCounts
    /\ alarm' = FALSE
    /\ outcome' = <<>>
    /\ UNCHANGED sigalrm
    /\ fired' = FALSE
    /\ listed' = FALSE
    /\ UNCHANGED <<mediaConfig, directory>>
    /\ UNCHANGED notMediaVars

FinishPass == Return(previous)

\* the same, with the pass remembered for the comparison with the next one
FinishPassRecorded == Return(ThisPass)

\* the steps of a pass up to its return
PassSteps ==
    \/ StartPass
    \/ HandleSegment
    \/ FastOpen
    \/ FastCopy
    \/ AdapterWrites
    \/ AdapterReturns
    \/ AdapterRaises
    \/ TimerFires

NextMedia ==
    \/ PassSteps
    \/ FinishPass

NextMediaRecorded ==
    \/ PassSteps
    \/ FinishPassRecorded

\* ------------------------------------------------------------------ Part 4
\* apply_retention_policy: the sweep over the video/ and images/ folders of
\* every camera. The entries of a folder are drawn as iterdir() yields them;
\* the file system may fail any stat or unlink, and any step at camera level.
RetentionDaysValues == {-1, 0, 1}
Subdirectories == <<"video", "images">>
\* st_mtime of an entry, in ticks
ModificationTimes == 0..(TicksPerSecond + 1)
\* datetime.now() at the start of the sweep
SweepClock == DayTicks + TicksPerSecond
EntryKinds == {"file", "directory"}
EntryFaults == {"none", "stat", "unlink"}
NoEntry ==
    [kind |-> "none", mtime |-> NoTime, fault |-> "none", removed |-> FALSE]

notRetentionVars == <<lockVars, runVars, mediaVars, folderVars, atomicVars, repeatVars>>

\* apply_retention_policy has not been called
SweepAtRest ==
    /\ retention_pc = "idle"
    /\ cutoff_timestamp = NoTime
    /\ camera_number = 1
    /\ subdirectory = 1
    /\ entries_seen = 0
    /\ total_deleted = 0
    /\ deleted_files_count = NoCode
    /\ last_entry = NoEntry
    /\ unlinked = 0
    /\ swept = {}
    /\ faults = {}

InitRetention ==
    /\ retention_days \in RetentionDaysValues
    /\ SweepAtRest

\* Part 4 at rest, for the specifications of the other parts
IdleRetention ==
    /\ retention_days = 0
    /\ SweepAtRest

\* line 335: if self.retention_days <= 0: return 0
RetentionEnabledUnlessZero(days) == days # 0

RetentionEnabled(days) == days > 0

\* line 366: file_modification_time < cutoff_timestamp
OldEnoughOrAtCutoff(mtime) == mtime <= cutoff_timestamp

OldEnough(mtime) == mtime < cutoff_timestamp

\* line 360: file_path.is_file()
EntryIsFileOrDirectory(kind) == kind \in {"file", "directory"}

EntryIsFile(kind) == kind = "file"

\* the camera loop goes on with the next camera
CameraFailedEndsSweep ==
    /\ camera_number' = NumCameras + 1
    /\ subdirectory' = 1
    /\ entries_seen' = 0
    /\ UNCHANGED swept

NextCamera ==
    /\ camera_number' = camera_number + 1
    /\ subdirectory' = 1
    /\ entries_seen' = 0
    /\ swept' = IF camera_number < NumCameras
                THEN swept \cup {camera_number + 1} ELSE swept

\* lines 379-381: except Exception at camera level: log, continue
CameraFailed == NextCamera

\* lines 335-346: the sweep is refused (return 0) or begins
StartSweep ==
    /\ retention_pc = "idle"
    /\ IF RetentionEnabled(retention_days)
       THEN /\ retention_pc' = "sweep"
            /\ cutoff_timestamp' = SweepClock - retention_days * DayTicks
            /\ swept' = {1}
            /\ UNCHANGED deleted_files_count
       ELSE /\ retention_pc' = "returned"
            /\ deleted_files_count' = 0
            /\ UNCHANGED <<cutoff_timestamp, swept>>
    /\ UNCHANGED <<retention_days, sweepPosition, total_deleted, last_entry, unlinked, faults>>
    /\ UNCHANGED notRetentionVars

\* lines 360-377: iterdir() yields one more entry, which is skipped if it is
\* not a file, deleted if it is old and neither stat nor unlink raises
ExamineEntry ==
    /\ retention_pc = "sweep"
    /\ camera_number <= NumCameras
    /\ entries_seen < MaxEntries
    /\ \E kind \in EntryKinds, mtime \in ModificationTimes, fault \in EntryFaults :
        LET deleted == EntryIsFile(kind) /\ OldEnough(mtime) /\ fault = "none"
        IN /\ kind = "directory" => fault = "none"
           /\ fault = "unlink" => (kind = "file" /\ OldEnough(mtime))
           /\ last_entry' = [kind |-> kind, mtime |-> mtime, fault |-> fault,
                            removed |-> deleted]
           /\ total_deleted' = IF deleted THEN total_deleted + 1 ELSE total_deleted
           /\ unlinked' = IF deleted THEN unlinked + 1 ELSE unlinked
           /\ faults' = IF fault = "none" THEN faults ELSE faults \cup {fault}
    /\ entries_seen' = entries_seen + 1
    /\ UNCHANGED <<retention_days, retention_pc, cutoff_timestamp, camera_number,
                   subdirectory, deleted_files_count, swept>>
    /\ UNCHANGED notRetentionVars

\* lines 351-358 and the end of iterdir(): the destination path or the folder
\* does not exist, or the folder has no more entries
LeaveDirectory ==
    /\ retention_pc = "sweep"
    /\ camera_number <= NumCameras
    /\ \E destination_exists \in BOOLEAN :
        /\ ~destination_exists => (subdirectory = 1 /\ entries_seen = 0)
        /\ IF destination_exists /\ subdirectory < Len(Subdirectories)
           THEN /\ subdirectory' = subdirectory + 1
                /\ entries_seen' = 0
                /\ UNCHANGED <<camera_number, swept>>
           ELSE NextCamera
    /\ last_entry' = NoEntry
    /\ UNCHANGED <<retention_days, retention_pc, cutoff_timestamp, total_deleted,
                   deleted_files_count, unlinked, faults>>
    /\ UNCHANGED notRetentionVars

\* exists(), iterdir() or is_file() raises: the handler of the camera
CameraRaises ==
    /\ retention_pc = "sweep"
    /\ camera_number <= NumCameras
    /\ CameraFailed
    /\ last_entry' = NoEntry
    /\ faults' = faults \cup {"camera"}
    /\ UNCHANGED <<retention_days, retention_pc, cutoff_timestamp, total_deleted,
                   deleted_files_count, unlinked>>
    /\ UNCHANGED notRetentionVars

\* lines 383-391: the camera loop is over, return total_deleted
ReturnDeleted ==
    /\ retention_pc = "sweep"
    /\ camera_number > NumCameras
    /\ retention_pc' = "returned"
    /\ deleted_files_count' = total_deleted
    /\ UNCHANGED <<retention_days, cutoff_timestamp, sweepPosition, total_deleted,
                   last_entry, unlinked, swept, faults>>
    /\ UNCHANGED notRetentionVars

NextRetention ==
    \/ StartSweep
    \/ ExamineEntry
    \/ LeaveDirectory
    \/ CameraRaises
    \/ ReturnDeleted

\* ------------------------------------------------------------------ Part 5
\* process_hikvision_folder.py: process_camera walks the adapter's segments;
\* each iteration parses the start time, formats the file name, extracts the
\* video and the image into the cache directory and renames them into place.

Seconds == {t \div TicksPerSecond : t \in Times}
Suffixes == 0..CollisionCap
FolderNames == Seconds \X Suffixes
FolderKinds == {"video", "images"}
FolderFileStates == {"absent", "empty", "full"}

\* a cust_startTime: the form it is given in and the wall-clock instant it
\* denotes; only the ISO forms and a datetime carry a fraction of a second
StartTimeForms == {"plain", "iso", "isoZ", "datetime", "text", "other", "absent"}
StartTimes ==
    {[form |-> "plain", at |-> s * TicksPerSecond] : s \in Seconds}
    \cup {[form |-> f, at |-> t] : f \in {"iso", "isoZ", "datetime"}, t \in Times}
    \cup {[form |-> f, at |-> NoTime] : f \in {"text", "other", "absent"}}

NoDatetime == [at |-> NoTime, tzinfo |-> "none"]
ValueError == [raised |-> TRUE, dt |-> NoDatetime]
Parsed(at, tzinfo) == [raised |-> FALSE, dt |-> [at |-> at, tzinfo |-> tzinfo]]

\* line 362: datetime.strptime(start_time, '%Y-%m-%d %H:%M:%S')
Strptime(text) ==
    IF text.form = "plain" THEN Parsed(text.at, "naive") ELSE ValueError

\* line 365: start_time.replace('Z', '+00:00')
ReplaceZ(text) ==
    IF text.form = "isoZ" THEN [text EXCEPT !.form = "isoOffset"] ELSE text

\* line 365: datetime.fromisoformat
FromIsoFormat(text) ==
    CASE text.form \in {"plain", "iso"} -> Parsed(text.at, "naive")
      [] text.form = "isoOffset" -> Parsed(text.at, "utc")
      [] OTHER -> ValueError

\* lines 355-372 with the ISO fallback of lines 364-365 left out
ParseSegmentTimeWithoutIso(start_time) ==
    IF start_time.form = "absent"
    THEN [skip |-> "absent", dt |-> NoDatetime]
    ELSE IF start_time.form = "datetime"
    THEN [skip |-> "no", dt |-> [at |-> start_time.at, tzinfo |-> "naive"]]
    ELSE IF start_time.form = "other"
    THEN [skip |-> "error", dt |-> NoDatetime]
    ELSE IF Strptime(start_time).raised
    THEN [skip |-> "unparsable", dt |-> NoDatetime]
    ELSE [skip |-> "no", dt |-> Strptime(start_time).dt]

\* lines 355-372: the start time of a segment as a datetime, or why the
\* iteration ends early ("absent": line 357, "unparsable": line 368,
\* "error": segment_dt.timestamp() raises on a value that is no datetime and
\* the handler of line 438 ends the iteration)
ParseSegmentTime(start_time) ==
    IF start_time.form = "absent"
    THEN [skip |-> "absent", dt |-> NoDatetime]
    ELSE IF start_time.form = "datetime"
    THEN [skip |-> "no", dt |-> [at |-> start_time.at, tzinfo |-> "naive"]]
    ELSE IF start_time.form = "other"
    THEN [skip |-> "error", dt |-> NoDatetime]
    ELSE IF ~Strptime(start_time).raised
    THEN [skip |-> "no", dt |-> Strptime(start_time).dt]
    ELSE IF ~FromIsoFormat(ReplaceZ(start_time)).raised
    THEN [skip |-> "no", dt |-> FromIsoFormat(ReplaceZ(start_time)).dt]
    ELSE [skip |-> "unparsable", dt |-> NoDatetime]

\* line 377: segment_dt.strftime('%Y-%m-%d_%H-%M-%S')
TsFormatted(segment_dt) == segment_dt.at \div TicksPerSecond

\* line 236: filepath.exists()
Exists(files, timestamp, counter) ==
    /\ <<timestamp, counter>> \in DOMAIN files
    /\ files[<<timestamp, counter>>] # "absent"

\* lines 235-246 with the cap tested one candidate too late
RECURSIVE UniqueFilenameFromLate(_, _, _, _)
UniqueFilenameFromLate(files, timestamp, suffix, counter) ==
    IF ~Exists(files, timestamp, suffix)
    THEN [suffix |-> suffix, tested |-> counter, warned |-> FALSE]
    ELSE IF counter + 1 > CollisionCap + 1
    THEN [suffix |-> counter, tested |-> counter, warned |-> TRUE]
    ELSE UniqueFilenameFromLate(files, timestamp, counter, counter + 1)

\* lines 235-246 taking the first candidate without testing it
UniqueFilenameFromUntested(files, timestamp, suffix, counter) ==
    [suffix |-> suffix, tested |-> counter - 1, warned |-> FALSE]

\* lines 235-246: the loop, entered with the candidate `suffix` (0 is the
\* unsuffixed name) and the value of `counter`; `tested` counts the names whose
\* existence was tested
RECURSIVE UniqueFilenameFrom(_, _, _, _)
UniqueFilenameFrom(files, timestamp, suffix, counter) ==
    IF ~Exists(files, timestamp, suffix)
    THEN [suffix |-> suffix, tested |-> counter, warned |-> FALSE]
    ELSE IF counter + 1 > CollisionCap
    THEN [suffix |-> counter, tested |-> counter, warned |-> TRUE]
    ELSE UniqueFilenameFrom(files, timestamp, counter, counter + 1)

\* lines 230-246
GetUniqueFilename(files, timestamp) == UniqueFilenameFrom(files, timestamp, 0, 1)

\* what extract_segment_mp4 / extract_segment_jpg leaves behind: it returns no
\* path, a path to nothing, to an empty file or to a written file, or raises
Extractions == {"no_path", "missing", "empty", "full", "raises"}

\* line 397 without the size test
FolderVerifyExistsOnly(extracted) == extracted \in {"empty", "full"}

\* lines 395-397: extracted_path and os.path.exists and getsize > 0
FolderVerify(extracted) == extracted = "full"

\* lines 387-407 (video) and 417-436 (image): the file state the destination
\* name has after the block
Placed(files, name, extracted, rename_ok) ==
    IF FolderVerify(extracted) /\ rename_ok
    THEN [files EXCEPT ![name] = extracted]
    ELSE files

NoSegment ==
    [start_time |-> [form |-> "absent", at |-> NoTime], skip |-> "none",
     ts_formatted |-> NoTime,
     dest |-> [k \in FolderKinds |-> [suffix |-> 0, tested |-> 0, warned |-> FALSE]],
     extracted |-> [k \in FolderKinds |-> "no_path"],
     rename_ok |-> [k \in FolderKinds |-> FALSE]]

\* the destination holds files of earlier passes: any of the candidate names of
\* the first second, in both subdirectories
InitFolder ==
    /\ folder_pc = "start"
    /\ num = 0
    /\ \E present \in SUBSET Suffixes :
           destination = [k \in FolderKinds |->
               [n \in FolderNames |->
                   IF n[1] = 0 /\ n[2] \in present THEN "full" ELSE "absent"]]
    /\ last_segment = NoSegment

\* Part 5 at rest, for the specifications of the other parts
IdleFolder ==
    /\ folder_pc = "idle"
    /\ num = 0
    /\ destination = [k \in FolderKinds |-> [n \in FolderNames |-> "absent"]]
    /\ last_segment = NoSegment

notFolderVars == <<lockVars, runVars, mediaVars, retentionVars, atomicVars, repeatVars>>

\* lines 334-336: the source directory does not exist
FolderSourceMissing ==
    /\ folder_pc = "start"
    /\ folder_pc' = "no_source"
    /\ UNCHANGED <<num, destination, last_segment>>
    /\ UNCHANGED notFolderVars

\* lines 340-347 raise, handled at lines 444-445
FolderAdapterRaises ==
    /\ folder_pc = "start"
    /\ folder_pc' = "adapter_error"
    /\ UNCHANGED <<num, destination, last_segment>>
    /\ UNCHANGED notFolderVars

\* lines 340-350: the adapter lists the segments
FolderListSegments ==
    /\ folder_pc = "start"
    /\ folder_pc' = "loop"
    /\ UNCHANGED <<num, destination, last_segment>>
    /\ UNCHANGED notFolderVars

\* line 352: the listing has a next segment
FolderNextSegment ==
    /\ folder_pc = "loop"
    /\ num < MaxSegs
    /\ folder_pc' = "body"
    /\ last_segment' = NoSegment
    /\ UNCHANGED <<num, destination>>
    /\ UNCHANGED notFolderVars

\* whether os.rename succeeds; it is reached only past the test of line 397
Renames(extracted) == IF FolderVerify(extracted) THEN BOOLEAN ELSE {FALSE}

\* lines 353-440: the body of the loop, on the segment the listing gave
FolderSegment ==
    /\ folder_pc = "body"
    /\ \E start_time \in StartTimes :
          LET parsed == ParseSegmentTime(start_time)
              ts == TsFormatted(parsed.dt)
              video_dest == GetUniqueFilename(destination["video"], ts)
              image_dest == GetUniqueFilename(destination["images"], ts)
          IN  IF parsed.skip # "no"
              THEN /\ last_segment' = [NoSegment EXCEPT
                          !.start_time = start_time, !.skip = parsed.skip]
                   /\ UNCHANGED destination
              ELSE \E video \in Extractions, image \in Extractions :
                   \E video_rename \in Renames(video), image_rename \in Renames(image) :
                      /\ last_segment' =
                             [start_time |-> start_time, skip |-> "no",
                              ts_formatted |-> ts,
                              dest |-> [k \in FolderKinds |->
                                  IF k = "video" THEN video_dest ELSE image_dest],
                              extracted |-> [k \in FolderKinds |->
                                  IF k = "video" THEN video ELSE image],
                              rename_ok |-> [k \in FolderKinds |->
                                  IF k = "video" THEN video_rename ELSE image_rename]]
                      /\ destination' = [k \in FolderKinds |->
                             IF k = "video"
                             THEN Placed(destination[k], <<ts, video_dest.suffix>>,
                                         video, video_rename)
                             ELSE Placed(destination[k], <<ts, image_dest.suffix>>,
                                         image, image_rename)]
    /\ num' = num + 1
    /\ folder_pc' = "loop"
    /\ UNCHANGED notFolderVars

\* line 442: the listing is exhausted
FolderCompleted ==
    /\ folder_pc = "loop"
    /\ folder_pc' = "completed"
    /\ UNCHANGED <<num, destination, last_segment>>
    /\ UNCHANGED notFolderVars

NextFolder ==
    \/ FolderSourceMissing
    \/ FolderAdapterRaises
    \/ FolderListSegments
    \/ FolderNextSegment
    \/ FolderSegment
    \/ FolderCompleted

\* ------------------------------------------------------------------ Part 6
\* process_hikvision_folder.py: atomic_write(content_func, dest_path) lets
\* content_func write '<dest_path>.part.<pid>' and renames it onto dest_path.

DestPaths == {"a.mp4", "b.mp4"}
\* line 250: f"{dest_path}.part.{os.getpid()}"
TempPath(dest, process) == <<dest, process>>
TempPaths == {TempPath(d, p) : d \in DestPaths, p \in Procs}
WrittenStates == {"absent", "partial", "complete"}
ContentResults == {"true", "false", "raised"}

InitAtomicWrite ==
    /\ atomic_pc = "call"
    /\ dest_path \in DestPaths
    /\ getpid \in Procs
    /\ \E present \in SUBSET DestPaths :
           filesystem =
               [final |-> [f \in DestPaths |-> IF f \in present THEN "old" ELSE "absent"],
                part |-> [f \in TempPaths |-> "absent"]]
    /\ content_result = "none"
    /\ atomic_result = "none"
    /\ dest_before = filesystem.final[dest_path]

\* Part 6 at rest, for the specifications of the other parts
IdleAtomicWrite ==
    /\ atomic_pc = "idle"
    /\ dest_path = "a.mp4"
    /\ getpid = 1
    /\ filesystem = [final |-> [f \in DestPaths |-> "absent"],
                     part |-> [f \in TempPaths |-> "absent"]]
    /\ content_result = "none"
    /\ atomic_result = "none"
    /\ dest_before = "absent"

notAtomicVars == <<lockVars, runVars, mediaVars, retentionVars, folderVars, repeatVars>>

temp_path == TempPath(dest_path, getpid)

\* lines 260-263 and 267-270: os.unlink(temp_path), OSError passed over; the
\* file is gone, was never there, or stays because os.unlink failed
UnlinkTemp ==
    \E removed \in BOOLEAN :
        /\ filesystem.part[temp_path] = "absent" => removed
        /\ filesystem' = IF removed
                         THEN [filesystem EXCEPT !.part[temp_path] = "absent"]
                         ELSE filesystem

\* line 253: success = content_func(temp_path)
AtomicContentFunc ==
    /\ atomic_pc = "call"
    /\ \E success \in ContentResults, written \in WrittenStates :
          /\ filesystem' = [filesystem EXCEPT !.part[temp_path] = written]
          /\ content_result' = success
          /\ atomic_pc' = CASE success = "true" -> "rename"
                            [] success = "false" -> "cleanup"
                            [] success = "raised" -> "handler"
    /\ UNCHANGED <<dest_path, getpid, atomic_result, dest_before>>
    /\ UNCHANGED notAtomicVars

\* lines 254-257: os.rename(temp_path, dest_path); return True
AtomicRename ==
    /\ atomic_pc = "rename"
    /\ \E ok \in BOOLEAN :
          /\ filesystem.part[temp_path] = "absent" => ~ok
          /\ IF ok
             THEN /\ filesystem' = [filesystem EXCEPT
                         !.final[dest_path] = filesystem.part[temp_path],
                         !.part[temp_path] = "absent"]
                  /\ atomic_result' = "true"
                  /\ atomic_pc' = "returned"
             ELSE /\ atomic_pc' = "handler"
                  /\ UNCHANGED <<filesystem, atomic_result>>
    /\ UNCHANGED <<dest_path, getpid, content_result, dest_before>>
    /\ UNCHANGED notAtomicVars

\* lines 258-264: content_func returned a false value
AtomicCleanup ==
    /\ atomic_pc = "cleanup"
    /\ UnlinkTemp
    /\ atomic_result' = "false"
    /\ atomic_pc' = "returned"
    /\ UNCHANGED <<dest_path, getpid, content_result, dest_before>>
    /\ UNCHANGED notAtomicVars

\* lines 265-271: except Exception
AtomicHandler ==
    /\ atomic_pc = "handler"
    /\ UnlinkTemp
    /\ atomic_result' = "false"
    /\ atomic_pc' = "returned"
    /\ UNCHANGED <<dest_path, getpid, content_result, dest_before>>
    /\ UNCHANGED notAtomicVars

NextAtomicWrite ==
    \/ AtomicContentFunc
    \/ AtomicRename
    \/ AtomicCleanup
    \/ AtomicHandler

\* ------------------------------------------------------------------ Part 7
\* sync_hikvision_cameras.py: run() called again and again on the same
\* segments. Each run passes over the segments (_process_media) and then
\* sweeps the destination (apply_retention_policy); a file written by a pass
\* carries the time of its extraction as st_mtime.

SegmentNames == {FileName(t) : t \in Times}
RunClock == 0..MaxNow

InitRepeatedRuns ==
    /\ settings \in [sync_days : SyncDaysValues, retention_days : RetentionDaysValues]
    /\ source \in SUBSET Times
    /\ clock = 0
    /\ phase = "idle"
    /\ mtimes = [n \in SegmentNames |-> NoTime]
    /\ extracted_once = {}
    /\ extracted_again = {}

\* Part 7 at rest, for the specifications of the other parts
IdleRepeatedRuns ==
    /\ settings = [sync_days |-> 0, retention_days |-> 0]
    /\ source = {}
    /\ clock = 0
    /\ phase = "off"
    /\ mtimes = [n \in SegmentNames |-> NoTime]
    /\ extracted_once = {}
    /\ extracted_again = {}

notRepeatVars == <<lockVars, runVars, mediaVars, retentionVars, folderVars, atomicVars>>

\* lines 483-488: the cutoff of the pass that starts at `now`
SyncCutoff(now) ==
    IF settings.sync_days > 0 THEN now - settings.sync_days * DayTicks ELSE NoTime

\* lines 498-511: the names listed, none when the listing fails
NamesListed(listing_ok) ==
    IF listing_ok THEN {n \in SegmentNames : mtimes[n] # NoTime} ELSE {}

\* lines 517-547: the names of the segments inside the window that are not in
\* the membership set, whatever the order of the listing
ToExtract(now, listing_ok) ==
    {FileName(t) : t \in {u \in source :
                            SyncCutoff(now) = NoTime \/ ~(u < SyncCutoff(now))}}
        \ NamesListed(listing_ok)

\* lines 710-722: run() starts at a clock reading not before the last one and
\* passes over the segments; each extraction succeeds or fails
SyncPass ==
    /\ phase = "idle"
    /\ \E now \in RunClock, listing_ok \in BOOLEAN :
          /\ now >= clock
          /\ clock' = now
          /\ \E succeeded \in SUBSET ToExtract(now, listing_ok) :
                /\ mtimes' = [n \in SegmentNames |->
                                 IF n \in succeeded THEN now ELSE mtimes[n]]
                /\ extracted_again' = extracted_again \cup (succeeded \cap extracted_once)
                /\ extracted_once' = extracted_once \cup succeeded
    /\ phase' = "synced"
    /\ UNCHANGED <<settings, source>>
    /\ UNCHANGED notRepeatVars

\* line 724 with lines 335-381: the sweep of the same run deletes the files
\* modified before the cutoff, except those whose stat or unlink fails
RetentionSweep ==
    /\ phase = "synced"
    /\ IF ~RetentionEnabled(settings.retention_days)
       THEN UNCHANGED mtimes
       ELSE \E spared \in SUBSET SegmentNames :
               mtimes' = [n \in SegmentNames |->
                   IF /\ n \notin spared
                      /\ mtimes[n] # NoTime
                      /\ mtimes[n] < clock - settings.retention_days * DayTicks
                   THEN NoTime ELSE mtimes[n]]
    /\ phase' = "idle"
    /\ UNCHANGED <<settings, source, clock, extracted_once, extracted_again>>
    /\ UNCHANGED notRepeatVars

NextRepeatedRuns ==
    \/ SyncPass
    \/ RetentionSweep

InitSpecRepeatedRuns ==
    /\ InitLock /\ IdleRun /\ IdleMedia /\ IdleRetention /\ IdleFolder
    /\ IdleAtomicWrite /\ InitRepeatedRuns

SpecRepeatedRuns == InitSpecRepeatedRuns /\ [][NextRepeatedRuns]_vars

InitSpecAtomicWrite ==
    /\ InitLock /\ IdleRun /\ IdleMedia /\ IdleRetention /\ IdleFolder
    /\ InitAtomicWrite /\ IdleRepeatedRuns

SpecAtomicWrite == InitSpecAtomicWrite /\ [][NextAtomicWrite]_vars

InitSpecFolder ==
    /\ InitLock /\ IdleRun /\ IdleMedia /\ IdleRetention /\ InitFolder /\ IdleAtomicWrite
    /\ IdleRepeatedRuns

SpecFolder == InitSpecFolder /\ [][NextFolder]_vars

InitSpecRetention ==
    /\ InitLock /\ IdleRun /\ IdleMedia /\ InitRetention /\ IdleFolder /\ IdleAtomicWrite
    /\ IdleRepeatedRuns

SpecRetention == InitSpecRetention /\ [][NextRetention]_vars

InitSpecMedia ==
    /\ InitLock /\ IdleRun /\ InitMedia /\ IdleRetention /\ IdleFolder /\ IdleAtomicWrite
    /\ IdleRepeatedRuns

SpecMedia == InitSpecMedia /\ [][NextMedia]_vars

SpecMediaRecorded == InitSpecMedia /\ [][NextMediaRecorded]_vars

\* the partial-failure scenario: three segments one second apart, an empty
\* destination directory
InitThreeSegments ==
    /\ InitLock
    /\ IdleRun
    /\ IdleRetention
    /\ IdleFolder
    /\ IdleAtomicWrite
    /\ IdleRepeatedRuns
    /\ media_type \in MediaTypes
    /\ fast_eligible \in BOOLEAN
    /\ sync_days \in SyncDaysValues
    /\ segments_list = ThreeSegments
    /\ directory = [n \in Names |-> "absent"]
    /\ previous = NoPrevious
    /\ PassAtRest

SpecThreeSegments == InitThreeSegments /\ [][NextMedia]_vars

InitSpecRun ==
    /\ InitLock /\ InitRun /\ IdleMedia /\ IdleRetention /\ IdleFolder /\ IdleAtomicWrite
    /\ IdleRepeatedRuns

SpecRun == InitSpecRun /\ [][NextRun]_vars

InitSpecLock ==
    /\ InitLock /\ IdleRun /\ IdleMedia /\ IdleRetention /\ IdleFolder /\ IdleAtomicWrite
    /\ IdleRepeatedRuns

SpecLock == InitSpecLock /\ [][NextLock]_vars

Runners == {p \in Procs : pc[p] = "work"}

\* ------------------------------------------------------------------ claims
\* C1: at most one process is in the work phase of run() at any time
AtMostOneRunner == Cardinality(Runners) <= 1

\* C2: once acquire_lock returned True, release_lock has run exactly once
\* when run() returns, whatever the way out of the try block; it has not run
\* before the finally block
ReleasedExactlyOnce ==
    /\ (run_pc = "returned" /\ exit_path # "refused") => (release_calls = 1 /\ ~lock_held)
    /\ (run_pc \notin {"returned"}) => release_calls = 0

ReleasedAfterInterrupt ==
    /\ run_pc = "returned"
    /\ exit_path = "keyboard_interrupt"
    /\ release_calls = 1

\* the file name of the i-th segment of the list
NameOf(i) == FileName(segments_list[i].cust_startTime)

\* an extraction of the current segment is under way
Extracting == media_pc \in {"fast_open", "fast_copy", "adapter"}

\* the segments of the pass under way that were handed to an extraction
Attempted ==
    {i \in 1..Len(outcome) : outcome[i] \in {"new", "failed", "timed_out"}}
        \cup (IF Extracting THEN {segment_number} ELSE {})

\* the previous pass ran its loop and left no timestamped segment of its
\* window unextracted: every segment ended as new, existing or without timestamp
PreviousPassComplete ==
    /\ previous.completed
    /\ \A i \in 1..Len(previous.outcome) :
          previous.outcome[i] \in {"new", "existing", "no_timestamp"}

\* C3: after a pass that extracted every timestamped segment of its window, the
\* next pass over the same list attempts no extraction and counts no segment as
\* new, failed or timed out: each one is existing (or skipped by the window or
\* for its missing timestamp)
SecondPassExtractsNothing ==
    PreviousPassComplete =>
        /\ Attempted = {}
        /\ counts.new_files_count = 0
        /\ counts.failed_files_count = 0
        /\ \A i \in 1..Len(outcome) : outcome[i] \in {"existing", "old", "no_timestamp"}

\* C4: a segment counted as existing has a non-empty file under its name in the
\* destination directory
ExistingMeansNonEmpty ==
    \A i \in 1..Len(outcome) :
        outcome[i] = "existing" => ExistsNonEmpty(directory[NameOf(i)])

\* C5: a step that ends an extraction attempt by its return (no timer expiry)
\* while the destination file is missing or empty counts the segment as failed,
\* not as new, and leaves the membership set as it was
ZeroByteRejected ==
    [][(/\ Extracting
        /\ Len(outcome') = Len(outcome) + 1
        /\ fired' = fired
        /\ ~ExistsNonEmpty(directory'[CurrentName]))
       => (/\ outcome'[Len(outcome')] = "failed"
           /\ counts'.failed_files_count = counts.failed_files_count + 1
           /\ counts'.new_files_count = counts.new_files_count
           /\ existing_files_set' = existing_files_set)]_vars

\* the fast path reported success for the only segment handled so far, and the
\* segment was counted as failed
FastSuccessCountedFailed ==
    /\ outcome = <<"failed">>
    /\ counts.fast_path_count = 1
    /\ counts.failed_files_count = 1
    /\ counts.new_files_count = 0
    /\ ~ExistsNonEmpty(directory[NameOf(1)])
    /\ NameOf(1) \notin existing_files_set

\* C6: no empty or incomplete file exists under a final name in the
\* destination directory
NoIncompleteFile ==
    \A n \in Names : directory[n] \in {"absent", "full"}

\* C7: a segment that timed out in the previous pass is not counted as
\* existing in the pass that follows
TimedOutIsRetried ==
    previous.completed =>
        \A i \in 1..Len(outcome) :
            (i <= Len(previous.outcome) /\ previous.outcome[i] = "timed_out")
                => outcome[i] # "existing"

\* C8: once the timer of a segment has expired, no extraction work for that
\* segment is under way
TimerAbandonsAttempt == fired => ~Extracting

\* the three segments are inside the window of the pass
AllInWindow ==
    \A i \in 1..Len(segments_list) :
        cutoff_time = NoTime \/ segments_list[i].cust_startTime >= cutoff_time

\* the pass started on an empty, listed destination directory and only the
\* segment of index 1 (the second) failed, leaving no output
OnlySecondFailed ==
    /\ LoopDone
    /\ Len(segments_list) = 3
    /\ AllInWindow
    /\ listed
    /\ Len(outcome) = 3
    /\ outcome[2] = "failed"
    /\ outcome[1] \notin {"failed", "timed_out", "existing"}
    /\ outcome[3] \notin {"failed", "timed_out", "existing"}
    /\ directory[NameOf(2)] = "absent"

\* C9: a failed segment counts as failed for itself only and the loop goes on
\* to the end of the list: a finished loop has one outcome per segment and as
\* many failures counted as segments that failed; with three segments in the
\* window of which only the second fails, the statistics are total 3, new 2,
\* failed 1, existing 0 and exactly two files are in the directory
FailureIsolatedPerSegment ==
    /\ LoopDone =>
          /\ Len(outcome) = Len(segments_list)
          /\ counts.failed_files_count =
                Cardinality({i \in 1..Len(outcome) : outcome[i] = "failed"})
    /\ OnlySecondFailed =>
          /\ ReturnedStatistics = [total |-> 3, existing |-> 0, new |-> 2, failed |-> 1]
          /\ {n \in Names : IsFile(n)} = {NameOf(1), NameOf(3)}
          /\ ExistsNonEmpty(directory[NameOf(1)])
          /\ ExistsNonEmpty(directory[NameOf(3)])

\* the scenario of C9 happened after the adapter raised for the second segment
SecondFailedOthersNew ==
    /\ OnlySecondFailed
    /\ outcome = <<"new", "failed", "new">>
    /\ counts.fast_path_count = 0

\* C10: _process_media raises for no behaviour of the adapter; a camera whose
\* adapter fails at construction or at listing gets all-zero statistics for
\* that kind while the other kind keeps its own, every camera handled so far
\* has its statistics, and the loop reaches every camera
AdapterFailureIsolated ==
    /\ \A behaviour \in AdapterBehaviours : ~ProcessMedia(behaviour).raised
    /\ Len(all_camera_statistics) = Len(camera_input)
    /\ Len(camera_input) = camera_index - 1
    /\ run_pc \in {"retention", "summary"} => Len(all_camera_statistics) = NumCameras
    /\ variant = "sync" =>
          \A i \in 1..Len(camera_input) :
              LET input == camera_input[i]
                  statistics == all_camera_statistics[i]
              IN input.source_exists =>
                    /\ input.video \in {"construct_raises", "list_raises"}
                          => statistics.videos = ZeroStatistics
                    /\ input.video = "ok" => statistics.videos.new = 1
                    /\ input.video = "extract_raises" => statistics.videos.failed = 1
                    /\ (sync_images /\ input.image \in {"construct_raises", "list_raises"})
                          => statistics.images = ZeroStatistics
                    /\ (sync_images /\ input.image = "ok") => statistics.images.new = 1

\* the adapter of the first camera failed at construction for the videos and
\* at listing for the images, and the second camera was processed with success
NextCameraAfterAdapterFailure ==
    /\ variant = "sync"
    /\ sync_images
    /\ Len(camera_input) >= 2
    /\ camera_input[1].source_exists
    /\ camera_input[1].video = "construct_raises"
    /\ camera_input[1].image = "list_raises"
    /\ all_camera_statistics[1] = ZeroBoth
    /\ camera_input[2].source_exists
    /\ camera_input[2].video = "ok"
    /\ all_camera_statistics[2].videos.new = 1

\* C11: a camera whose source path does not exist costs no _process_media call
\* and gets all-zero statistics for both kinds; the loop still handles every
\* camera of the list, and a run that leaves the try block by its end returns 0
MissingSourceSkipped ==
    /\ variant = "sync" =>
          \A i \in 1..Len(camera_input) :
              ~camera_input[i].source_exists =>
                  /\ AdapterCalls(camera_input[i]) = 0
                  /\ all_camera_statistics[i] = ZeroBoth
    /\ run_pc \in {"retention", "summary"} => Len(camera_input) = NumCameras
    /\ (run_pc = "returned" /\ exit_path = "completed") =>
          (return_code = 0 /\ Len(camera_input) = NumCameras)

\* the first camera had no source directory, the second was synchronised and
\* the run returned 0
RunCompletedPastMissingSource ==
    /\ variant = "sync"
    /\ run_pc = "returned"
    /\ return_code = 0
    /\ Len(camera_input) = NumCameras
    /\ ~camera_input[1].source_exists
    /\ all_camera_statistics[1] = ZeroBoth
    /\ camera_input[2].source_exists
    /\ all_camera_statistics[2].videos.new = 1

\* the processes that hold the lock: flock was granted to them and their
\* release_lock has not unlocked yet
Holders == {p \in Procs : pc[p] \in {"write", "work", "unlock"}}

\* C12: while a process whose acquire_lock returned True has not yet unlocked,
\* no acquire_lock of another process has returned True
HolderExcludesOthers ==
    \A p, q \in Procs :
        (p # q /\ pc[p] = "work") => pc[q] \notin {"work", "unlock"}

\* C13: an advisory lock never outlives the open descriptor of the process
\* that took it, so a lock file left on disk by a failed unlink or by the
\* death of its holder carries no lock: an acquire_lock that opened such a
\* file is refused by flock only if a live process took the lock since, and a
\* process past flock holds the lock of the file it opened
StaleLockFileHarmless ==
    /\ \A i \in Inodes :
          flock[i] # NoProc =>
              (lock_file_descriptor[flock[i]] = i /\ flock[i] \in Holders)
    /\ \A p \in Procs :
          (pc[p] = "flock" /\ opened_stale[p] /\ ~FlockGranted(p)) =>
              (flock[lock_file_descriptor[p]] # p
                  /\ flock[lock_file_descriptor[p]] \in Holders)
    /\ \A p \in Holders : flock[lock_file_descriptor[p]] = p

\* acquire_lock returned True on a lock file that was left on disk
AcquiredOverStaleFile ==
    \E p \in Procs :
        /\ pc[p] = "work"
        /\ opened_stale[p]
        /\ lock_file = lock_file_descriptor[p]
        /\ flock[lock_file] = p

\* C14: a run whose acquire_lock returned False has returned 1 without a step
\* of the try block (no directory made, no camera processed, no retention
\* sweep) and without a call of release_lock
RefusedRunHasNoEffect ==
    exit_path = "refused" =>
        /\ run_pc = "returned"
        /\ return_code = 1
        /\ release_calls = 0
        /\ ~lock_held
        /\ ~directories_created
        /\ camera_input = <<>>
        /\ all_camera_statistics = <<>>
        /\ trace = <<>>

\* a run was refused while another process held the lock, and that process
\* still holds it
RefusedWhileOtherHolds ==
    /\ run_pc = "returned"
    /\ exit_path = "refused"
    /\ other_holds
    /\ return_code = 1
    /\ release_calls = 0

\* the steps of a run that goes to the end of its try block, in order
FullPass ==
    <<"acquire", "mkdirs">> \o [i \in 1..NumCameras |-> "camera"]
        \o <<"retention", "summary">>

Released == trace # <<>> /\ trace[Len(trace)] = "release"

\* the steps of the current run before release_lock
StepsBeforeRelease ==
    IF Released THEN SubSeq(trace, 1, Len(trace) - 1) ELSE trace

\* C15: the steps of a run are a prefix of: acquire_lock, create_directories,
\* one process_camera per camera in the order of the list, the retention sweep,
\* the summary; release_lock comes once, after them, and nothing follows it;
\* no camera is processed unless the directories were created
OrchestratorOrder ==
    /\ Len(StepsBeforeRelease) <= Len(FullPass)
    /\ StepsBeforeRelease = SubSeq(FullPass, 1, Len(StepsBeforeRelease))
    /\ Released => (run_pc = "returned" /\ release_calls = 1)
    /\ Len(camera_input) = camera_index - 1
    /\ Cardinality({i \in 1..Len(trace) : trace[i] = "camera"}) = Len(camera_input)
    /\ Len(camera_input) > 0 => directories_created
    /\ exit_path = "mkdir_false" => camera_input = <<>>

\* a run went through every step and released the lock at the end
FullPassThenRelease ==
    /\ trace = FullPass \o <<"release">>
    /\ run_pc = "returned"
    /\ directories_created
    /\ Len(camera_input) = NumCameras

\* C16: run() returns 0 or 1; it returns 0 exactly when it left the try block by
\* its end, which it does only with the lock acquired and every step of the
\* pass done, whatever the adapters did; it returns 1 when refused the lock, on
\* KeyboardInterrupt, on an exception and, in process_hikvision_folder, when
\* create_directories returned False
ExitCodes ==
    run_pc = "returned" =>
        /\ return_code \in {0, 1}
        /\ (return_code = 0) <=> (exit_path = "completed")
        /\ exit_path = "completed" => StepsBeforeRelease = FullPass
        /\ exit_path \in {"refused", "keyboard_interrupt", "exception", "mkdir_false"}
              => return_code = 1
        /\ exit_path = "mkdir_false" => variant = "folder"

\* a run returned 0 although the extraction raised for one camera and the
\* adapter could not be built for another
ZeroDespiteFailures ==
    /\ variant = "sync"
    /\ run_pc = "returned"
    /\ return_code = 0
    /\ camera_input[1].source_exists
    /\ camera_input[1].video = "extract_raises"
    /\ all_camera_statistics[1].videos.failed = 1
    /\ camera_input[2].source_exists
    /\ camera_input[2].video = "construct_raises"
    /\ all_camera_statistics[2].videos = ZeroStatistics

\* C17: an entry of a video/ or images/ folder is removed by the sweep exactly
\* when it is a file whose modification time is strictly before the cutoff
\* (and neither stat nor unlink failed): a file modified at the cutoff stays, a
\* file modified one second before it goes, a directory always stays
RetentionBoundary ==
    last_entry # NoEntry =>
        /\ last_entry.removed <=>
              (/\ last_entry.kind = "file"
               /\ last_entry.mtime < cutoff_timestamp
               /\ last_entry.fault = "none")
        /\ last_entry.kind = "directory" => ~last_entry.removed
        /\ last_entry.mtime = cutoff_timestamp => ~last_entry.removed
        /\ (/\ last_entry.kind = "file"
            /\ last_entry.mtime = cutoff_timestamp - TicksPerSecond
            /\ last_entry.fault = "none") => last_entry.removed

\* the first entry of a folder was deleted, the second is a file modified
\* exactly at the cutoff and was kept
KeptAtCutoffAfterDeletion ==
    /\ retention_pc = "sweep"
    /\ camera_number = 1
    /\ subdirectory = 1
    /\ entries_seen = 2
    /\ unlinked = 1
    /\ last_entry.kind = "file"
    /\ last_entry.mtime = cutoff_timestamp
    /\ last_entry.fault = "none"
    /\ ~last_entry.removed

\* C18: with retention_days <= 0 apply_retention_policy examines no entry,
\* deletes nothing and returns 0
RetentionDisabled ==
    retention_days <= 0 =>
        /\ retention_pc \in {"idle", "returned"}
        /\ last_entry = NoEntry
        /\ swept = {}
        /\ unlinked = 0
        /\ total_deleted = 0
        /\ retention_pc = "returned" => deleted_files_count = 0

\* apply_retention_policy returned 0 for a negative retention_days
ReturnedZeroWhenNegative ==
    /\ retention_days < 0
    /\ retention_pc = "returned"
    /\ deleted_files_count = 0
    /\ unlinked = 0

\* C19: the counter of the sweep is the number of files actually removed, and
\* so is the value returned; a file whose stat or unlink failed is not removed
\* and the loop over its folder goes on; the iteration of every camera up to
\* the current one has begun, whatever failed before, and at the return that
\* of every camera
SweepRunsToCompletion ==
    /\ total_deleted = unlinked
    /\ (retention_pc = "returned" /\ retention_days > 0) =>
          (swept = Cameras /\ deleted_files_count = unlinked)
    /\ retention_pc = "sweep" =>
          swept = {c \in Cameras : c <= camera_number}
    /\ last_entry.fault # "none" =>
          /\ ~last_entry.removed
          /\ retention_pc = "sweep"
          /\ camera_number <= NumCameras
          /\ entries_seen >= 1

\* the sweep returned after an unlink failure and an exception at camera
\* level, having deleted one file and begun the iteration of every camera
ReturnedAfterFailures ==
    /\ retention_pc = "returned"
    /\ faults = {"unlink", "camera"}
    /\ swept = Cameras
    /\ unlinked = 1
    /\ deleted_files_count = 1

\* the start time of the i-th segment of the list
StartTimeOf(i) == segments_list[i].cust_startTime

\* the number of segments the pass under way counted as `kind`
Counted(kind) == Cardinality({i \in 1..Len(outcome) : outcome[i] = kind})

\* C20: in a pass with a window of N > 0 days the cutoff is the time of the
\* pass minus N days; a segment that starts before it is counted as old, is
\* never handed to an extraction and is in total only, not in new, existing or
\* failed; no other segment is counted as old, and with N = 0 there is no
\* cutoff and no segment is counted as old
RecencyWindow ==
    /\ media_pc # "idle" =>
          IF sync_days > 0
          THEN \E now \in ClockReadings : cutoff_time = now - sync_days * DayTicks
          ELSE cutoff_time = NoTime
    /\ \A i \in 1..Len(outcome) :
          outcome[i] = "old" <=>
              (/\ sync_days > 0
               /\ StartTimeOf(i) \in Times
               /\ StartTimeOf(i) < cutoff_time)
    /\ Extracting =>
          (sync_days = 0 \/ StartTimeOf(segment_number) >= cutoff_time)
    /\ counts.skipped_old_count = Counted("old")
    /\ LoopDone =>
          /\ ReturnedStatistics.total = Len(segments_list)
          /\ ReturnedStatistics.new = Counted("new")
          /\ ReturnedStatistics.existing = Counted("existing")
          /\ ReturnedStatistics.failed = Counted("failed")

\* a pass with a window skipped a segment that starts before the cutoff and
\* extracted one that starts exactly at the cutoff
OldSkippedCutoffExtracted ==
    /\ LoopDone
    /\ sync_days > 0
    /\ Len(segments_list) = 2
    /\ StartTimeOf(1) \in Times
    /\ StartTimeOf(1) < cutoff_time
    /\ StartTimeOf(2) = cutoff_time
    /\ outcome = <<"old", "new">>
    /\ ReturnedStatistics = [total |-> 2, existing |-> 0, new |-> 1, failed |-> 0]

\* C21: for a camera whose source exists, process_camera with sync_images off
\* calls _process_media for the videos only and reports all-zero image
\* statistics; with sync_images on it calls it for the videos, then for the
\* images, and reports what each call returned
ImageSyncToggle ==
    variant = "sync" =>
        \A i \in 1..Len(camera_input) :
            LET input == camera_input[i]
                statistics == all_camera_statistics[i]
            IN input.source_exists =>
                  /\ statistics.videos = ProcessMedia(input.video).stats
                  /\ IF sync_images
                     THEN /\ MediaCalls(input) = <<"video", "image">>
                          /\ statistics.images = ProcessMedia(input.image).stats
                     ELSE /\ MediaCalls(input) = <<"video">>
                          /\ AdapterCalls(input) = 1
                          /\ statistics.images = ZeroStatistics

\* with sync_images off a camera had a video extracted and its image
\* statistics are all zero
VideosOnly ==
    /\ variant = "sync"
    /\ ~sync_images
    /\ Len(camera_input) >= 1
    /\ camera_input[1].source_exists
    /\ all_camera_statistics[1].videos.new = 1
    /\ all_camera_statistics[1].images = ZeroStatistics

\* C22: a segment whose start time is absent or is not a timestamp is counted
\* as missing-timestamp, not as new, existing or failed
NoTimestampSkipped ==
    \A i \in 1..Len(outcome) :
        StartTimeOf(i) \notin Times => outcome[i] = "no_timestamp"

\* the loop body of process_camera has just run on a segment
IterationEnded == folder_pc = "loop" /\ last_segment.skip # "none"

\* C23: a start time given as 'YYYY-MM-DD HH:MM:SS', as ISO-8601 with or without
\* a trailing 'Z', or as a datetime yields the file name of its wall-clock
\* second, whatever the form; an unparsable string, a value of another type
\* and an absent value end the iteration without a file, and the loop goes on
TimestampFormats ==
    [][folder_pc = "body" =>
          LET start_time == last_segment'.start_time
          IN  /\ folder_pc' = "loop"
              /\ start_time.form \in {"plain", "iso", "isoZ", "datetime"} =>
                     /\ last_segment'.skip = "no"
                     /\ last_segment'.ts_formatted = start_time.at \div TicksPerSecond
              /\ start_time.form \in {"text", "other", "absent"} =>
                     /\ last_segment'.skip \in {"absent", "unparsable", "error"}
                     /\ destination' = destination]_vars

IsoZNamedBySecond ==
    /\ IterationEnded
    /\ last_segment.start_time.form = "isoZ"
    /\ last_segment.start_time.at % TicksPerSecond # 0
    /\ destination["video"][<<last_segment.ts_formatted,
                              last_segment.dest["video"].suffix>>] = "full"

\* the candidate names get_unique_filename tests that are free
FreeSuffixes(files, timestamp) ==
    {i \in 0..(CollisionCap - 1) : ~Exists(files, timestamp, i)}

FirstFree(files, timestamp) ==
    CHOOSE i \in FreeSuffixes(files, timestamp) :
        \A j \in FreeSuffixes(files, timestamp) : i <= j

\* C25: get_unique_filename returns the first name of the sequence unsuffixed,
\* _1, _2, ... that does not exist, whenever one of the names it tests is free
CollisionResolution ==
    [][folder_pc = "body" /\ last_segment'.skip = "no" =>
          \A k \in FolderKinds :
              FreeSuffixes(destination[k], last_segment'.ts_formatted) # {} =>
                  last_segment'.dest[k].suffix =
                      FirstFree(destination[k], last_segment'.ts_formatted)]_vars

SuffixedPastCollision ==
    /\ IterationEnded
    /\ last_segment.skip = "no"
    /\ last_segment.dest["video"].suffix = 1
    /\ ~last_segment.dest["video"].warned
    /\ destination["video"][<<last_segment.ts_formatted, 0>>] = "full"

\* C26: get_unique_filename tests at most the cap of names; when all of them
\* exist it warns and returns the name formed last, and it warns in no other case
CollisionCapped ==
    [][folder_pc = "body" /\ last_segment'.skip = "no" =>
          \A k \in FolderKinds :
              LET found == last_segment'.dest[k]
                  free == FreeSuffixes(destination[k], last_segment'.ts_formatted)
              IN  /\ found.tested <= CollisionCap
                  /\ found.warned <=> free = {}
                  /\ free = {} => found.suffix = CollisionCap]_vars

WarnedAtCap ==
    /\ IterationEnded
    /\ last_segment.dest["video"].warned
    /\ last_segment.dest["video"].suffix = CollisionCap
    /\ last_segment.dest["video"].tested = CollisionCap

\* C27: the loop body changes a destination file only by renaming onto it a
\* cache file verified to exist with a size above zero; no path, a missing
\* file, an empty file or a failed rename leave the subdirectory as it was
VerifiedPlacement ==
    [][folder_pc = "body" =>
          \A k \in FolderKinds :
              /\ \A n \in FolderNames :
                     destination'[k][n] # destination[k][n] =>
                         /\ destination'[k][n] = "full"
                         /\ last_segment'.extracted[k] = "full"
                         /\ last_segment'.rename_ok[k]
                         /\ n = <<last_segment'.ts_formatted,
                                  last_segment'.dest[k].suffix>>
              /\ (last_segment'.extracted[k] # "full" \/ ~last_segment'.rename_ok[k]) =>
                     destination'[k] = destination[k]]_vars

EmptyVideoKeptOut ==
    /\ IterationEnded
    /\ last_segment.extracted["video"] = "empty"
    /\ last_segment.extracted["images"] = "full"
    /\ last_segment.rename_ok["images"]
    /\ destination["video"][<<last_segment.ts_formatted,
                              last_segment.dest["video"].suffix>>] = "absent"
    /\ destination["images"][<<last_segment.ts_formatted,
                               last_segment.dest["images"].suffix>>] = "full"

\* a finished loop over segments with valid start times in pairwise distinct
\* seconds, all inside the window, on a directory listed as empty, in which no
\* extraction failed or timed out
AllExtractedIntoEmpty ==
    /\ LoopDone
    /\ listed
    /\ \A i \in 1..Len(segments_list) : StartTimeOf(i) \in Times
    \* the set holds no name but those the pass added at line 590
    /\ existing_files_set = {NameOf(i) : i \in {j \in 1..Len(outcome) : outcome[j] = "new"}}
    /\ AllInWindow
    /\ \A i, j \in 1..Len(segments_list) :
          i # j => StartTimeOf(i) \div TicksPerSecond # StartTimeOf(j) \div TicksPerSecond
    /\ \A i \in 1..Len(outcome) : outcome[i] \notin {"failed", "timed_out"}

\* C24: segments in pairwise distinct seconds, every extraction successful, an
\* empty destination: the pass leaves exactly one non-empty file per segment,
\* under the segment's timestamp name, and returns total = new = the number of
\* segments, existing = failed = 0
EndToEndOutput ==
    AllExtractedIntoEmpty =>
        /\ ReturnedStatistics = [total |-> Len(segments_list), existing |-> 0,
                                 new |-> Len(segments_list), failed |-> 0]
        /\ {n \in Names : IsFile(n)} = {NameOf(i) : i \in 1..Len(segments_list)}
        /\ Cardinality({n \in Names : IsFile(n)}) = Len(segments_list)
        /\ \A i \in 1..Len(segments_list) : ExistsNonEmpty(directory[NameOf(i)])

EverySegmentExtracted ==
    /\ AllExtractedIntoEmpty
    /\ Len(segments_list) = MaxSegs
    /\ \A i \in 1..Len(outcome) : outcome[i] = "new"

\* C28: atomic_write returns True only after content_func reported success and
\* the temporary file was renamed onto dest_path; whenever it returns False,
\* dest_path is as it was before the call and the temporary file is gone
AtomicWriteContract ==
    atomic_pc = "returned" =>
        /\ atomic_result = "true" =>
              /\ content_result = "true"
              /\ filesystem.final[dest_path] \in WrittenStates \ {"absent"}
              /\ filesystem.part[temp_path] = "absent"
        /\ atomic_result = "false" =>
              /\ filesystem.final[dest_path] = dest_before
              /\ filesystem.part[temp_path] = "absent"

\* C29: over complete runs on unchanged segments, retention sweeps included, a
\* segment extracted by one run is extracted by no later run
NeverExtractedAgain == extracted_again = {}

\* C30: while a process is between its acquire_lock that returned True and its
\* release_lock, the lock file it locked holds that process's pid
LockFileHoldsPid ==
    \A p \in Procs :
        pc[p] = "work" => content[lock_file_descriptor[p]] = p

\* C31: when a file with the segment's unsuffixed name is in a subdirectory
\* from an earlier pass, the loop body leaves that subdirectory as it was
CanonicalNameNotExtractedAgain ==
    [][folder_pc = "body" /\ last_segment'.skip = "no" =>
          \A k \in FolderKinds :
              Exists(destination[k], last_segment'.ts_formatted, 0) =>
                  destination'[k] = destination[k]]_vars

\* C36: every rename of the loop body targets a name that does not exist in
\* the subdirectory at that time
RenameNeverReplaces ==
    [][folder_pc = "body" /\ last_segment'.skip = "no" =>
          \A k \in FolderKinds :
              last_segment'.rename_ok[k] =>
                  ~Exists(destination[k], last_segment'.ts_formatted,
                          last_segment'.dest[k].suffix)]_vars

\* inside _extract_video_fast
InFastPath == media_pc \in {"fast_open", "fast_copy"}

\* C32: the fast copy is entered only for video with fast extraction enabled on
\* one file system, and then first; the adapter is called exactly when the fast
\* path was not eligible or has failed; a fast copy that succeeds ends the
\* attempt without the adapter; images never enter the fast copy
ExtractionChain ==
    [][/\ (InFastPath' /\ ~InFastPath) =>
              (media_pc = "segment" /\ fast_eligible /\ media_type = "video")
       /\ (media_pc = "segment" /\ Extracting') =>
              IF fast_eligible /\ media_type = "video"
              THEN media_pc' = "fast_open"
              ELSE media_pc' = "adapter"
       /\ (media_pc' = "adapter" /\ media_pc # "adapter") =>
              \/ media_pc = "segment" /\ ~(fast_eligible /\ media_type = "video")
              \/ InFastPath /\ counts' = counts
       /\ (InFastPath /\ ~InFastPath') =>
              \/ media_pc' = "adapter" /\ counts' = counts
              \/ /\ media_pc' = "segment"
                 /\ counts'.fast_path_count = counts.fast_path_count + 1
                 /\ Len(outcome') = Len(outcome) + 1
       /\ media_type = "image" => ~InFastPath']_vars

FastFailedAdapterRuns ==
    /\ media_pc = "adapter"
    /\ fast_eligible
    /\ media_type = "video"
    /\ directory[CurrentName] = "partial"
    /\ ~fired

\* C33: during a pass a name enters the membership set only with the
\* verification of its extraction (the file exists, not empty, counted new);
\* a later segment of the pass with the name of a segment counted new is
\* counted existing and no extraction starts for it; no file whose name is in
\* the set is written
MembershipWithinPass ==
    /\ \A i, j \in 1..Len(outcome) :
          (i < j /\ outcome[i] = "new" /\ NameOf(j) = NameOf(i)
               /\ StartTimeOf(j) \in Times /\ ~TooOld(StartTimeOf(j))) =>
              outcome[j] = "existing"
    /\ Extracting => CurrentName \notin existing_files_set
    /\ Extracting =>
          \A i \in 1..Len(outcome) : outcome[i] = "new" => NameOf(i) # CurrentName
    /\ media_pc # "idle" =>
          \A i \in 1..Len(outcome) :
              outcome[i] = "new" =>
                  (NameOf(i) \in existing_files_set /\ ExistsNonEmpty(directory[NameOf(i)]))
    /\ (media_pc # "idle" /\ listed) =>
          \A n \in existing_files_set :
              \/ \E i \in 1..Len(outcome) : outcome[i] = "new" /\ NameOf(i) = n
              \/ IsFile(n)

SameNameCountedExisting ==
    /\ LoopDone
    /\ Len(outcome) = 2
    /\ outcome = <<"new", "existing">>
    /\ StartTimeOf(1) # StartTimeOf(2)
    /\ listed
    /\ counts.existing_files_count = 1

\* the segments handled so far that ended as `kind`
Ended(kind) == Cardinality({i \in 1..Len(outcome) : outcome[i] = kind})

\* C34: every segment handled is counted in exactly one of the counters new,
\* existing, failed, skipped-old, skipped-missing-timestamp and timed-out; at
\* the end of the loop every listed segment is counted, total is the number of
\* listed segments and new + existing + failed <= total
StatisticsAccounting ==
    /\ media_pc # "idle" =>
          /\ counts.new_files_count = Ended("new")
          /\ counts.existing_files_count = Ended("existing")
          /\ counts.failed_files_count = Ended("failed")
          /\ counts.skipped_old_count = Ended("old")
          /\ counts.skipped_no_timestamp_count = Ended("no_timestamp")
          /\ counts.timed_out_count = Ended("timed_out")
          /\ counts.new_files_count + counts.existing_files_count
                + counts.failed_files_count + counts.skipped_old_count
                + counts.skipped_no_timestamp_count + counts.timed_out_count
                = Len(outcome)
    /\ LoopDone =>
          /\ Len(outcome) = Len(segments_list)
          /\ ReturnedStatistics.total = Len(segments_list)
          /\ ReturnedStatistics.new + ReturnedStatistics.existing
                + ReturnedStatistics.failed <= ReturnedStatistics.total

TimedOutCountedOnce ==
    /\ LoopDone
    /\ outcome = <<"timed_out", "new">>
    /\ ReturnedStatistics = [total |-> 2, existing |-> 0, new |-> 1, failed |-> 0]

\* the step creates directories, processes a camera or sweeps the destination
WorkStep ==
    \/ run_pc = "mkdirs" /\ directories_created' # directories_created
    \/ Len(camera_input') > Len(camera_input)
    \/ run_pc = "retention" /\ run_pc' = "summary"

\* C35: directories are created, cameras are processed and the retention sweep
\* runs only in a process that holds the lock: its acquire_lock returned True
\* and its release_lock has not started, before and after the step
WorkUnderLock ==
    [][WorkStep =>
          /\ lock_held /\ lock_held'
          /\ release_calls = 0 /\ release_calls' = 0
          /\ trace # <<>> /\ trace[1] = "acquire"]_vars

SweptUnderLock ==
    /\ run_pc = "summary"
    /\ lock_held
    /\ release_calls = 0
    /\ Len(camera_input) = NumCameras
    /\ directories_created

\* C37: when _extract_video_fast returns True (the only case in which
\* fast_path_count is raised) the destination file holds the whole byte range
\* of the segment; a copy that ended early or copied nothing is not reported
\* as success
FastTrueIsWholeRange ==
    [][InFastPath /\ counts'.fast_path_count > counts.fast_path_count =>
          directory'[CurrentName] = "full"]_vars

TimeoutLeavesNoTrace ==
    media_pc \in {"idle", "segment"} =>
        /\ ~alarm
        /\ sigalrm = DefaultDisposition

====
